---- MODULE Spec2Model ----
(***************************************************************************)
(* Model of the Chimera liquidation bot (src/chimera/bot/src):             *)
(*   - SafetyController (safety_controller.py): three-state machine,       *)
(*     limit enforcement, metrics, execution tracking;                     *)
(*   - ChimeraBot.main_event_loop (main.py): the scan cycle that plans,    *)
(*     validates and submits bundles;                                      *)
(*   - ExecutionPlanner.plan_execution / submit_bundle                     *)
(*     (execution_planner.py), as far as the loop's control flow needs;    *)
(*   - StateEngine.system_state and its health monitor (state_engine.py).  *)
(*                                                                         *)
(* USD amounts are whole dollars.  Rates that the code holds as Decimal    *)
(* fractions are held as exact rationals (numerator, denominator) and      *)
(* compared by cross-multiplication; thresholds are in percent.            *)
(* None and Decimal 0 are both written 0 where the code only tests the     *)
(* value for truthiness.                                                   *)
(***************************************************************************)
EXTENDS Integers, Sequences, FiniteSets, TLC

\* ------------------------------------------------------------------------
\* Program constants (config.py SafetyLimits defaults, main.py)
\* ------------------------------------------------------------------------
max_single_execution_usd == 500
max_daily_volume_usd == 2500
min_profit_usd == 50
max_consecutive_failures == 3
throttle_inclusion_rate_pct == 60
throttle_accuracy_pct == 90
halt_inclusion_rate_pct == 50
halt_accuracy_pct == 85
\* main.py:417  if self._bundles_submitted % 100 == 0
metrics_update_every == 100
\* config.py:135
confirmation_blocks == 2
\* liquidation_threshold of the protocol configuration, in percent
liquidation_threshold_pct == 80
\* state_engine.py:707/737  divergence threshold in basis points
divergence_threshold_bps == 10
\* state_engine.py:228
checkpoint_interval == 10
\* state_engine.py:50
max_reconnect_attempts == 10
\* config.py:92-95, in percent
baseline_bribe_percent == 15
bribe_increase_percent == 5
bribe_decrease_percent == 2
max_bribe_percent == 40
\* execution_planner.py:711  if len(recent_submissions) < 100
bribe_window == 100
\* execution_planner.py:722, 732  inclusion rate thresholds, in percent
bribe_raise_below_pct == 60
bribe_lower_above_pct == 90
\* config.py:100  flash_loan_premium_percent = 0.09, in hundredths of a percent
flash_loan_premium_bp == 9
\* config.py:68  dex.max_slippage_percent
max_slippage_percent == 1

\* ------------------------------------------------------------------------
\* Bounds of the model
\* ------------------------------------------------------------------------
\* deque(maxlen=100) of safety_controller.py:52-53, scaled down
WindowSize == 2
\* "Minimum sample size" 10 of safety_controller.py:410/415, scaled with it
MinSampleSize == 2
\* record_execution calls explored
MaxRecords == 3
\* midnights (00:00 UTC) that pass
MaxDays == 1
\* positions returned by get_all_positions in one scan cycle
NumPositions == 2
\* scan cycles in which positions are found
MaxCycles == 1
\* highest block number delivered
MaxBlock == 2
\* longest blocks_unhealthy streak followed
MaxStreak == 2
\* bribe model updates followed
MaxBribeUpdates == 6
\* entries of a window whose metrics are handed to the transition rules
MaxSamples == 5
\* highest block number a header of the sequencer guard carries
MaxHeader == 10
\* longest run of block-processing steps counted: the 10 blocks within
\* which reconciliation is to run
MaxRun == 10
\* on_message calls followed at a time
MaxHandlers == 2
\* bundles approved and submitted in one day
MaxApproved == 6

NORMAL == "NORMAL"
THROTTLED == "THROTTLED"
HALTED == "HALTED"
SystemState == {NORMAL, THROTTLED, HALTED}

\* The metrics cache before the first calculation (_cached_metrics = None)
NoMetrics == [none |-> TRUE]

VARIABLES
    controller,       \* SafetyController fields
    today,            \* number of 00:00 UTC instants passed since start
    system_state,     \* StateEngine.system_state
    pc,               \* main_event_loop position: "top" (asleep between
                      \* cycles) or "scan" (inside the for loop)
    local_state,      \* main_event_loop's local current_state
    positions_left,   \* positions of this cycle still to be handled
    bundles_submitted,\* ChimeraBot._bundles_submitted
    dry_run,          \* ChimeraBot.dry_run
    dry_run_stats,    \* _dry_run_simulations_success/_failed/_theoretical_profit
    last_op,          \* history: the operation performed by the last step
    last_submit,      \* history: the most recent submit_bundle call
    included_since_midnight, \* history: sum of actual_profit_usd of included
                      \* outcomes recorded since the most recent 00:00 UTC
    engine_halt_pending, \* history: the State Engine halted the system and
                      \* no manual_resume was issued since
    n_records,        \* history: record_execution calls so far
    n_cycles,         \* history: scan cycles started so far
    rule_case,        \* one evaluation of the transition rules: the state
                      \* and metrics handed to them, and the state they give
    redis,            \* RedisManager: the external store (client), the
                      \* in-process _in_memory_cache and _use_fallback
    redis_up,         \* the external key-value store is reachable
    engine,           \* StateEngine block tracking: current_block,
                      \* previous_block, last_block_timestamp set or not,
                      \* last_checkpoint_block
    cache_op,         \* history: the last cache operation and what it saw
    ws,               \* WebSocketConnectionManager: created or not,
                      \* is_primary, is_connected, reconnect_attempts,
                      \* where its start() task stands and the number of
                      \* on_message calls that have begun and not returned
    planner,          \* ExecutionPlanner: bribe_percent, bribe_update_counter
    planner_op,       \* history: the last planner operation, its inputs and
                      \* the Bundle it produced
    streak            \* history, per position: the distinct blocks at which
                      \* check_position saw the health factor below 1 since
                      \* it last saw it at or above 1 (blocks), and the
                      \* blocks_unhealthy that update_position_health last
                      \* wrote (count)

\* The variables of the bot proper: Safety Controller, main loop, histories
bot_vars == <<controller, today, system_state, pc, local_state, positions_left,
              bundles_submitted, dry_run, dry_run_stats, last_op, last_submit,
              included_since_midnight, engine_halt_pending, n_records, n_cycles>>

\* The variables of the parts of the bot that are exercised on their own
cache_vars == <<redis, redis_up, engine, cache_op, streak>>

planner_vars == <<planner, planner_op>>

subsystem_vars == <<rule_case, cache_vars, ws, planner_vars>>

vars == <<controller, today, system_state, pc, local_state, positions_left,
          bundles_submitted, dry_run, dry_run_stats, last_op, last_submit,
          included_since_midnight, engine_halt_pending, n_records, n_cycles,
          subsystem_vars>>

loop_vars == <<pc, local_state, positions_left, bundles_submitted, dry_run,
               dry_run_stats, last_submit, n_cycles>>

\* ------------------------------------------------------------------------
\* SafetyController
\* ------------------------------------------------------------------------

\* SafetyController.__init__
ControllerInit ==
    [current_state |-> NORMAL,
     consecutive_failures |-> 0,
     daily_volume_usd |-> 0,
     daily_reset_day |-> 1,          \* _get_next_midnight_utc(): next midnight
     submission_history |-> << >>,
     execution_history |-> << >>,
     cached_metrics |-> NoMetrics,
     metrics_fresh |-> FALSE]        \* age of the cache < 600 s

\* deque(maxlen=...).append: the oldest entry is dropped when full
DequeAppend(d, e) ==
    IF Len(d) < WindowSize THEN Append(d, e) ELSE Append(Tail(d), e)

RECURSIVE SumOver(_, _, _)
\* sum of Op-free field extraction: f is "inc", "acc" or "profit"
SumOver(h, f, i) ==
    IF i > Len(h) THEN 0
    ELSE (CASE f = "inc" -> (IF h[i].included THEN 1 ELSE 0)
            [] f = "acc" -> (IF h[i].simulated_profit_usd > 0
                             THEN (h[i].actual_profit_usd * 100)
                                      \div h[i].simulated_profit_usd
                             ELSE 0)
            [] OTHER -> h[i].actual_profit_usd)
         + SumOver(h, f, i + 1)

\* The metrics computed from the two deques (the part of calculate_metrics
\* after the cache test).  inclusion_rate = successful_inclusions /
\* total_submissions; simulation_accuracy = accuracy_pct_sum / (100 *
\* total_executions); both are 0 when the deque is empty.
ComputeMetrics(c) ==
    [none |-> FALSE,
     total_submissions |-> Len(c.submission_history),
     successful_inclusions |-> SumOver(c.submission_history, "inc", 1),
     total_executions |-> Len(c.execution_history),
     accuracy_pct_sum |-> SumOver(c.execution_history, "acc", 1),
     total_profit_usd |-> SumOver(c.execution_history, "profit", 1),
     consecutive_failures |-> c.consecutive_failures]

\* calculate_metrics(force): [c |-> controller after, m |-> metrics returned]
CalculateMetrics(c, force) ==
    IF ~force /\ ~c.cached_metrics.none /\ c.metrics_fresh
    THEN [c |-> c, m |-> c.cached_metrics]
    ELSE LET m == ComputeMetrics(c)
         IN  [c |-> [c EXCEPT !.cached_metrics = m, !.metrics_fresh = TRUE],
              m |-> m]

\* m.inclusion_rate < pct/100, m.inclusion_rate >= pct/100, ...
InclusionBelow(m, pct) ==
    IF m.total_submissions > 0
    THEN m.successful_inclusions * 100 < pct * m.total_submissions
    ELSE 0 < pct
InclusionAbove(m, pct) ==
    IF m.total_submissions > 0
    THEN m.successful_inclusions * 100 > pct * m.total_submissions
    ELSE FALSE
AccuracyBelow(m, pct) ==
    IF m.total_executions > 0
    THEN m.accuracy_pct_sum < pct * m.total_executions
    ELSE 0 < pct
AccuracyAbove(m, pct) ==
    IF m.total_executions > 0
    THEN m.accuracy_pct_sum > pct * m.total_executions
    ELSE FALSE

\* Variant of _should_halt without the simulation-accuracy rule
ShouldHaltIgnoresAccuracy(m) ==
    \/ m.consecutive_failures >= max_consecutive_failures
    \/ /\ m.total_submissions >= MinSampleSize
       /\ InclusionBelow(m, halt_inclusion_rate_pct)

\* Variant of _should_halt that applies the two rate rules to windows of
\* any length
ShouldHaltWithoutMinimumSample(m) ==
    \/ m.consecutive_failures >= max_consecutive_failures
    \/ InclusionBelow(m, halt_inclusion_rate_pct)
    \/ AccuracyBelow(m, halt_accuracy_pct)

\* _should_halt
ShouldHalt(m) ==
    \/ m.consecutive_failures >= max_consecutive_failures
    \/ /\ m.total_submissions >= MinSampleSize
       /\ InclusionBelow(m, halt_inclusion_rate_pct)
    \/ /\ m.total_executions >= MinSampleSize
       /\ AccuracyBelow(m, halt_accuracy_pct)

\* Variant of _should_throttle whose bands include their upper thresholds
ShouldThrottleAtThreshold(m) ==
    \/ /\ m.total_submissions >= MinSampleSize
       /\ ~InclusionBelow(m, halt_inclusion_rate_pct)
       /\ ~InclusionAbove(m, throttle_inclusion_rate_pct)
    \/ /\ m.total_executions >= MinSampleSize
       /\ ~AccuracyBelow(m, halt_accuracy_pct)
       /\ ~AccuracyAbove(m, throttle_accuracy_pct)

\* _should_throttle
ShouldThrottle(m) ==
    \/ /\ m.total_submissions >= MinSampleSize
       /\ ~InclusionBelow(m, halt_inclusion_rate_pct)
       /\ InclusionBelow(m, throttle_inclusion_rate_pct)
    \/ /\ m.total_executions >= MinSampleSize
       /\ ~AccuracyBelow(m, halt_accuracy_pct)
       /\ AccuracyBelow(m, throttle_accuracy_pct)

\* Variant of _should_recover_to_normal that accepts metrics equal to the
\* throttle thresholds
ShouldRecoverAtThreshold(m) ==
    /\ ~(m.total_submissions < MinSampleSize \/ m.total_executions < MinSampleSize)
    /\ ~InclusionBelow(m, throttle_inclusion_rate_pct)
    /\ ~AccuracyBelow(m, throttle_accuracy_pct)

\* _should_recover_to_normal
ShouldRecoverToNormal(m) ==
    /\ ~(m.total_submissions < MinSampleSize \/ m.total_executions < MinSampleSize)
    /\ InclusionAbove(m, throttle_inclusion_rate_pct)
    /\ AccuracyAbove(m, throttle_accuracy_pct)

\* transition_state(new_state, ...): the logging and alerting leave the
\* controller's fields alone
TransitionState(c, new_state) ==
    IF new_state = c.current_state THEN c
    ELSE [c EXCEPT !.current_state = new_state]

\* manual_resume(operator, reason)
ManualResumeOp(c) ==
    IF c.current_state # HALTED THEN c
    ELSE [c EXCEPT !.consecutive_failures = 0, !.current_state = NORMAL]

\* Variant of can_execute() that always skips in THROTTLED
CanExecuteResultsThrottledNever(c) ==
    IF c.current_state = NORMAL THEN {TRUE} ELSE {FALSE}

\* can_execute(): the set of values a call can return in the state of c;
\* in THROTTLED it is random.random() > 0.5
CanExecuteResults(c) ==
    IF c.current_state = HALTED THEN {FALSE}
    ELSE IF c.current_state = THROTTLED THEN {TRUE, FALSE}
    ELSE {TRUE}

\* _reset_daily_volume_if_needed(): now >= _daily_reset_time
ResetDailyVolumeIfNeeded(c, now_day) ==
    IF now_day >= c.daily_reset_day
    THEN [c EXCEPT !.daily_volume_usd = 0, !.daily_reset_day = now_day + 1]
    ELSE c

\* Variant of the daily-volume test that also rejects a candidate bringing
\* the volume exactly to the limit
DailyVolumeReached(projected_daily) ==
    projected_daily >= max_daily_volume_usd

\* The daily-volume test of validate_execution (line 197):
\* projected_daily > max_daily_volume_usd
DailyVolumeExceeded(projected_daily) ==
    projected_daily > max_daily_volume_usd

\* validate_execution(bundle):
\* [c |-> controller after, ok |-> is_valid, compared |-> the daily-volume
\*  test was reached]
ValidateExecution(c, net_profit_usd, now_day) ==
    IF net_profit_usd < min_profit_usd
    THEN [c |-> c, ok |-> FALSE, compared |-> FALSE]
    ELSE IF net_profit_usd > max_single_execution_usd
    THEN [c |-> c, ok |-> FALSE, compared |-> FALSE]
    ELSE LET c1 == ResetDailyVolumeIfNeeded(c, now_day)
         IN  IF DailyVolumeExceeded(c1.daily_volume_usd + net_profit_usd)
             THEN [c |-> c1, ok |-> FALSE, compared |-> TRUE]
             ELSE IF c1.consecutive_failures >= max_consecutive_failures
             THEN [c |-> c1, ok |-> FALSE, compared |-> TRUE]
             ELSE [c |-> c1, ok |-> TRUE, compared |-> TRUE]

\* Variant of the transition rules without the HALTED early return and with
\* the recovery rule open to every state other than NORMAL
TransitionTargetRecoversAnyState(current, m) ==
    IF ShouldHalt(m) THEN HALTED
    ELSE IF current = NORMAL /\ ShouldThrottle(m) THEN THROTTLED
    ELSE IF current # NORMAL /\ ShouldRecoverToNormal(m) THEN NORMAL
    ELSE current

\* The state check_and_apply_transitions moves to, given the state it read
\* and the metrics (lines 379-401)
TransitionTarget(current, m) ==
    IF current = HALTED THEN HALTED
    ELSE IF ShouldHalt(m) THEN HALTED
    ELSE IF current = NORMAL /\ ShouldThrottle(m) THEN THROTTLED
    ELSE IF current = THROTTLED /\ ShouldRecoverToNormal(m) THEN NORMAL
    ELSE current

\* check_and_apply_transitions()
CheckAndApplyTransitions(c) ==
    LET r == CalculateMetrics(c, FALSE)
    IN  TransitionState(r.c, TransitionTarget(r.c.current_state, r.m))

\* Variant of the counter update in which an included outcome leaves the
\* counter alone
FailuresAfterKeepsCount(c, record) ==
    IF record.bundle_submitted /\ ~record.included
    THEN c.consecutive_failures + 1
    ELSE c.consecutive_failures

\* Variant of the counter update in which every outcome that is not
\* included counts as a failure, submitted or not
FailuresAfterCountsUnsubmitted(c, record) ==
    IF record.included THEN 0 ELSE c.consecutive_failures + 1

\* The consecutive-failure counter after record_execution (lines 493-496)
FailuresAfter(c, record) ==
    IF record.included THEN 0
    ELSE IF record.bundle_submitted THEN c.consecutive_failures + 1
    ELSE c.consecutive_failures

\* record_execution(record); the database row it writes is not modelled
RecordExecutionOp(c, record) ==
    [c EXCEPT
       !.consecutive_failures = FailuresAfter(c, record),
       !.daily_volume_usd =
           IF record.included /\ record.actual_profit_usd # 0
           THEN @ + record.actual_profit_usd ELSE @,
       !.submission_history =
           IF record.bundle_submitted
           THEN DequeAppend(@, [included |-> record.included])
           ELSE @,
       !.execution_history =
           IF record.included
           THEN DequeAppend(@, [simulated_profit_usd |-> record.simulated_profit_usd,
                                actual_profit_usd |-> record.actual_profit_usd])
           ELSE @]

\* ------------------------------------------------------------------------
\* Inputs
\* ------------------------------------------------------------------------

\* ExecutionRecords handed to record_execution: rejected before submission,
\* submitted and not included, included with the simulated profit realised
\* in full, included with 80% of it.  An included outcome is the outcome of
\* a submitted bundle.
ExecutionRecords ==
    { [bundle_submitted |-> FALSE, included |-> FALSE,
       simulated_profit_usd |-> 0, actual_profit_usd |-> 0],
      [bundle_submitted |-> TRUE, included |-> FALSE,
       simulated_profit_usd |-> 1000, actual_profit_usd |-> 0],
      [bundle_submitted |-> TRUE, included |-> TRUE,
       simulated_profit_usd |-> 1000, actual_profit_usd |-> 1000],
      [bundle_submitted |-> TRUE, included |-> TRUE,
       simulated_profit_usd |-> 1000, actual_profit_usd |-> 800] }

\* net_profit_usd of candidate bundles: around both profit limits
NetProfits == {49, 50, 500, 501}

NoOp == [op |-> "none"]
NoSubmit == [called |-> FALSE]

\* ------------------------------------------------------------------------
\* RedisManager (database.py) and the position cache of the StateEngine
\* (state_engine.py).  A cached position is the JSON dictionary the engine
\* stores under "position:<protocol>:<user>"; the model keeps the fields the
\* cache operations read or write.  Amounts are in wei.
\* ------------------------------------------------------------------------
PositionKeys == {"position:moonwell:0xA"}

NoEntry == [none |-> TRUE]

PositionDict(collateral_amount, debt_amount, last_update_block, blocks_unhealthy) ==
    [none |-> FALSE,
     collateral_amount |-> collateral_amount,
     debt_amount |-> debt_amount,
     last_update_block |-> last_update_block,
     blocks_unhealthy |-> blocks_unhealthy]

\* RedisManager.__init__ and _connect: both layers empty; the fallback is
\* in use from the start when the ping fails
RedisInit(up) ==
    [store |-> [k \in PositionKeys |-> NoEntry],
     memory |-> [k \in PositionKeys |-> NoEntry],
     use_fallback |-> ~up]

\* An entry of _in_memory_cache: the value and whether its timestamp is
\* younger than config.ttl_seconds
MemoryEntry(value) == [none |-> FALSE, value |-> value, fresh |-> TRUE]

\* RedisManager.set: in fallback the in-process layer only; otherwise
\* client.setex only; on RedisConnectionError switch to the fallback and
\* write the in-process layer
RedisSet(r, up, key, value) ==
    IF r.use_fallback
    THEN [r EXCEPT !.memory[key] = MemoryEntry(value)]
    ELSE IF up
         THEN [r EXCEPT !.store[key] = value]
         ELSE [r EXCEPT !.use_fallback = TRUE, !.memory[key] = MemoryEntry(value)]

\* The fallback branch of RedisManager.get: the value while its age is
\* below the TTL; an older entry is deleted and None returned
MemoryGet(r, key) ==
    IF r.memory[key].none
    THEN [r |-> r, value |-> NoEntry]
    ELSE IF r.memory[key].fresh
         THEN [r |-> r, value |-> r.memory[key].value]
         ELSE [r |-> [r EXCEPT !.memory[key] = NoEntry], value |-> NoEntry]

\* RedisManager.get: client.get, and on RedisConnectionError the switch to
\* the fallback and a retry there
RedisGet(r, up, key) ==
    IF r.use_fallback
    THEN MemoryGet(r, key)
    ELSE IF up
         THEN [r |-> r, value |-> r.store[key]]
         ELSE MemoryGet([r EXCEPT !.use_fallback = TRUE], key)

\* RedisManager.delete
RedisDelete(r, up, key) ==
    IF r.use_fallback
    THEN [r EXCEPT !.memory[key] = NoEntry]
    ELSE IF up
         THEN [r EXCEPT !.store[key] = NoEntry]
         ELSE [r EXCEPT !.use_fallback = TRUE, !.memory[key] = NoEntry]

\* RedisManager.keys("position:*"): the fallback lists its keys without a
\* TTL test
RedisKeys(r, up) ==
    LET mem(rr) == {k \in PositionKeys : ~rr.memory[k].none}
    IN  IF r.use_fallback
        THEN [r |-> r, keys |-> mem(r)]
        ELSE IF up
             THEN [r |-> r, keys |-> {k \in PositionKeys : ~r.store[k].none}]
             ELSE [r |-> [r EXCEPT !.use_fallback = TRUE], keys |-> mem(r)]

\* A Position constructor that accepts any amount
ValidPositionOfAnyAmount(d) == ~d.none

\* Position(**position_dict): validate_positive rejects an amount <= 0
ValidPosition(d) ==
    /\ ~d.none
    /\ d.collateral_amount > 0
    /\ d.debt_amount > 0

\* StateEngine.get_position: None when the key is absent or when the
\* Position constructor raises
GetPosition(r, up, key) ==
    LET g == RedisGet(r, up, key)
    IN  [r |-> g.r,
         position |-> IF ValidPosition(g.value) THEN g.value ELSE NoEntry]

\* StateEngine.update_position: blocks_unhealthy of the existing position is
\* kept, a position that get_position does not return starts at 0
UpdatePositionOp(r, up, key, collateral_amount, debt_amount, block_number) ==
    LET g == GetPosition(r, up, key)
        blocks_unhealthy == IF g.position.none THEN 0
                            ELSE g.position.blocks_unhealthy
    IN  RedisSet(g.r, up, key,
                 PositionDict(collateral_amount, debt_amount, block_number,
                              blocks_unhealthy))

\* StateEngine.update_position_health: 0 on healthy, one more on unhealthy
BlocksUnhealthyAfter(blocks_unhealthy, is_healthy) ==
    IF is_healthy THEN 0 ELSE blocks_unhealthy + 1

\* StateEngine.update_position_health: False when get_position returns no
\* position
UpdatePositionHealthOp(r, up, key, is_healthy, block_number) ==
    LET g == GetPosition(r, up, key)
    IN  IF g.position.none
        THEN [r |-> g.r, result |-> FALSE]
        ELSE [r |-> RedisSet(g.r, up, key,
                        [g.position EXCEPT
                            !.blocks_unhealthy =
                                BlocksUnhealthyAfter(@, is_healthy),
                            !.last_update_block = block_number]),
              result |-> TRUE]

\* StateEngine._fetch_and_cache_position: the placeholder entry
FetchAndCachePosition(r, up, key, block_number) ==
    RedisSet(r, up, key, PositionDict(0, 0, block_number, 0))

\* StateEngine._update_position_debt (Borrow: is_increase, Repay: not)
UpdatePositionDebtOp(r, up, key, amount, block_number, is_increase) ==
    LET g == RedisGet(r, up, key)
        debt == IF is_increase
                THEN g.value.debt_amount + amount
                ELSE IF g.value.debt_amount - amount > 0
                     THEN g.value.debt_amount - amount
                     ELSE 0
    IN  IF ~g.value.none
        THEN RedisSet(g.r, up, key,
                      [g.value EXCEPT !.debt_amount = debt,
                                      !.last_update_block = block_number])
        ELSE FetchAndCachePosition(g.r, up, key, block_number)

\* StateEngine.remove_position and _handle_liquidation_event
RemovePositionOp(r, up, key) == RedisDelete(r, up, key)

Abs(x) == IF x < 0 THEN -x ELSE x

\* abs((cached - canonical) * 10000 // canonical), computed only for a
\* canonical value above 0
DivergenceBps(cached, canonical) ==
    IF canonical > 0
    THEN Abs(((cached - canonical) * 10000) \div canonical)
    ELSE 0

\* _reconcile_state, "Update cache with canonical values": in every case
ReconciledEntry(position_dict, canonical, block_number) ==
    [position_dict EXCEPT
        !.collateral_amount = canonical.collateral_amount,
        !.debt_amount = canonical.debt_amount,
        !.last_update_block = block_number]

\* The fields of one position for which _reconcile_state appends a
\* StateDivergence: those with a divergence above 0 bps
DivergentFields(position_dict, canonical) ==
    {f \in {"collateral_amount", "debt_amount"} :
        DivergenceBps(position_dict[f], canonical[f]) > 0}

\* The StateDivergence records _reconcile_state appends for the position
\* cached under key
StateDivergences(key, position_dict, canonical) ==
    {[key |-> key, field |-> f,
      cached_value |-> position_dict[f],
      canonical_value |-> canonical[f],
      divergence_bps |-> DivergenceBps(position_dict[f], canonical[f])] :
        f \in DivergentFields(position_dict, canonical)}

\* The fields whose divergence exceeds the threshold and halts the system
HaltingFields(position_dict, canonical) ==
    {f \in {"collateral_amount", "debt_amount"} :
        DivergenceBps(position_dict[f], canonical[f]) > divergence_threshold_bps}

\* _reconcile_state over the keys in ks; canonical[k] is what
\* _fetch_canonical_position returns for k (none: no data)
RECURSIVE ReconcileKeys(_, _, _, _, _)
ReconcileKeys(r, up, ks, canonical, block_number) ==
    IF ks = {}
    THEN [r |-> r, divergences |-> {}, halt |-> FALSE]
    ELSE LET k == CHOOSE x \in ks : TRUE
             g == RedisGet(r, up, k)
             skip == g.value.none \/ canonical[k].none
             r1 == IF skip THEN g.r
                   ELSE RedisSet(g.r, up, k,
                            ReconciledEntry(g.value, canonical[k], block_number))
             rest == ReconcileKeys(r1, up, ks \ {k}, canonical, block_number)
         IN  [r |-> rest.r,
              divergences |->
                  rest.divergences \cup
                  (IF skip THEN {}
                   ELSE StateDivergences(k, g.value, canonical[k])),
              halt |-> rest.halt \/
                       (~skip /\ HaltingFields(g.value, canonical[k]) # {})]

\* StateEngine._reconcile_state
ReconcileStateOp(r, up, canonical, block_number) ==
    LET ks == RedisKeys(r, up)
    IN  ReconcileKeys(ks.r, up, ks.keys, canonical, block_number)

\* The entry of key that the cache would serve: the layer in use
CachedEntry(r, key) ==
    IF r.use_fallback
    THEN IF r.memory[key].none THEN NoEntry ELSE r.memory[key].value
    ELSE r.store[key]

\* StateEngine.__init__: no block seen, no checkpoint
EngineInit ==
    [current_block |-> 0, previous_block |-> 0, last_block_timestamp |-> 0,
     last_checkpoint_block |-> 0]

NoCacheOp == [op |-> "none"]

NoStreak == [blocks |-> {}, count |-> 0]

\* The cache and the engine after construction, with the external store
\* reachable or not
CacheStart(up) ==
    /\ redis = RedisInit(up)
    /\ redis_up = up
    /\ engine = EngineInit
    /\ cache_op = NoCacheOp
    /\ streak = [k \in PositionKeys |-> NoStreak]

\* ------------------------------------------------------------------------
\* WebSocketConnectionManager (state_engine.py)
\* ------------------------------------------------------------------------

\* StateEngine.__init__: ws_manager is None
WsNotStarted ==
    [started |-> FALSE, is_primary |-> TRUE, is_connected |-> FALSE,
     reconnect_attempts |-> 0, task |-> "none", handling |-> 0]

\* WebSocketConnectionManager.__init__, and start() about to connect
WsCreated ==
    [started |-> TRUE, is_primary |-> TRUE, is_connected |-> FALSE,
     reconnect_attempts |-> 0, task |-> "connecting", handling |-> 0]

\* WebSocketConnectionManager.connect: success resets the attempt counter
WsConnectOp(w, success) ==
    IF success
    THEN [w EXCEPT !.is_connected = TRUE, !.reconnect_attempts = 0]
    ELSE [w EXCEPT !.is_connected = FALSE]

\* reconnect: self.reconnect_attempts = 0 on the switch to the backup
AttemptsAfterSwitch(attempts) == 0

\* One invocation of WebSocketConnectionManager.reconnect, up to its
\* recursive call: with the attempts used up the primary gives way to the
\* backup and the backup raises RPCError, which ends the start() task;
\* otherwise one more attempt is counted and made
WsReconnectOp(w, success) ==
    LET used_up == w.reconnect_attempts >= max_reconnect_attempts
    IN  IF used_up /\ ~w.is_primary
        THEN [w EXCEPT !.task = "failed"]
        ELSE LET w1 == IF used_up
                       THEN [w EXCEPT
                               !.is_primary = FALSE,
                               !.reconnect_attempts = AttemptsAfterSwitch(@)]
                       ELSE w
                 w2 == [w1 EXCEPT !.reconnect_attempts = @ + 1,
                                  !.is_connected = FALSE]
                 w3 == WsConnectOp(w2, success)
             IN  [w3 EXCEPT !.task = IF success THEN "listening"
                                     ELSE "reconnecting"]

\* WebSocketConnectionManager.failover
WsFailoverOp(w, success) ==
    IF w.is_primary
    THEN WsConnectOp([w EXCEPT !.is_primary = FALSE,
                               !.reconnect_attempts = 0,
                               !.is_connected = FALSE], success)
    ELSE w

\* ExecutionPlanner.__init__
PlannerInit ==
    [bribe_percent |-> baseline_bribe_percent, bribe_update_counter |-> 0]

NoPlannerOp == [op |-> "none"]

PlannerStart ==
    /\ planner = PlannerInit
    /\ planner_op = NoPlannerOp

\* ------------------------------------------------------------------------
\* Initial state: the bot after construction (ChimeraBot.__init__,
\* SafetyController.__init__, StateEngine.__init__)
\* ------------------------------------------------------------------------
BotInit ==
    /\ controller = ControllerInit
    /\ today = 0
    /\ system_state = NORMAL
    /\ pc = "top"
    /\ local_state = NORMAL
    /\ positions_left = 0
    /\ bundles_submitted = 0
    /\ dry_run \in BOOLEAN
    /\ dry_run_stats = [success |-> 0, failed |-> 0, theoretical_profit |-> 0]
    /\ last_op = NoOp
    /\ last_submit = NoSubmit
    /\ included_since_midnight = 0
    /\ engine_halt_pending = FALSE
    /\ n_records = 0
    /\ n_cycles = 0

\* No evaluation of the transition rules is in progress
NoRuleCase == [applied |-> FALSE, none |-> TRUE]

\* The separately exercised parts at rest
SubsystemsInit ==
    /\ rule_case = NoRuleCase
    /\ CacheStart(TRUE)
    /\ ws = WsNotStarted
    /\ PlannerStart

Init == BotInit /\ SubsystemsInit

\* ------------------------------------------------------------------------
\* Safety Controller operations as steps (called by the result-ingestion
\* path, the operator, the monitoring loop)
\* ------------------------------------------------------------------------

\* record_execution(record)
RecordExecution ==
    /\ pc = "top"
    /\ n_records < MaxRecords
    /\ \E record \in ExecutionRecords :
         /\ controller' = RecordExecutionOp(controller, record)
         /\ last_op' = [op |-> "record_execution", record |-> record]
         /\ included_since_midnight' =
              IF record.included
              THEN included_since_midnight + record.actual_profit_usd
              ELSE included_since_midnight
    /\ n_records' = n_records + 1
    /\ UNCHANGED <<today, system_state, engine_halt_pending>>
    /\ UNCHANGED loop_vars
    /\ UNCHANGED subsystem_vars

\* manual_resume(operator, reason)
ManualResume ==
    /\ pc = "top"
    /\ controller' = ManualResumeOp(controller)
    /\ last_op' = [op |-> "manual_resume",
                   previous_state |-> controller.current_state]
    /\ engine_halt_pending' = FALSE
    /\ UNCHANGED <<today, system_state, included_since_midnight, n_records>>
    /\ UNCHANGED loop_vars
    /\ UNCHANGED subsystem_vars

\* validate_execution(bundle) called on its own
ValidateExecutionCall ==
    /\ pc = "top"
    /\ \E net \in NetProfits :
         LET r == ValidateExecution(controller, net, today)
         IN  /\ controller' = r.c
             /\ last_op' = [op |-> "validate_execution", net_profit_usd |-> net,
                            ok |-> r.ok, compared |-> r.compared]
    /\ UNCHANGED <<today, system_state, included_since_midnight,
                   engine_halt_pending, n_records>>
    /\ UNCHANGED loop_vars
    /\ UNCHANGED subsystem_vars

\* check_and_apply_transitions() called on its own
CheckAndApplyTransitionsCall ==
    /\ pc = "top"
    /\ controller' = CheckAndApplyTransitions(controller)
    /\ last_op' = [op |-> "check_and_apply_transitions"]
    /\ UNCHANGED <<today, system_state, included_since_midnight,
                   engine_halt_pending, n_records>>
    /\ UNCHANGED loop_vars
    /\ UNCHANGED subsystem_vars

\* calculate_metrics(force) as the monitoring loop and get_status call it
CalculateMetricsCall ==
    /\ pc = "top"
    /\ \E force \in BOOLEAN :
         /\ controller' = CalculateMetrics(controller, force).c
         /\ last_op' = [op |-> "calculate_metrics", force |-> force]
    /\ UNCHANGED <<today, system_state, included_since_midnight,
                   engine_halt_pending, n_records>>
    /\ UNCHANGED loop_vars
    /\ UNCHANGED subsystem_vars

\* can_execute()
CanExecuteCall ==
    /\ pc = "top"
    /\ \E result \in CanExecuteResults(controller) :
         last_op' = [op |-> "can_execute", result |-> result]
    /\ UNCHANGED <<controller, today, system_state, included_since_midnight,
                   engine_halt_pending, n_records>>
    /\ UNCHANGED loop_vars
    /\ UNCHANGED subsystem_vars

\* transition_state(HALTED, ...) as main.py calls it (lines 453 and 482:
\* ten consecutive loop errors, all RPC providers failed)
TransitionToHaltedCall ==
    /\ pc = "top"
    /\ controller' = TransitionState(controller, HALTED)
    /\ last_op' = [op |-> "transition_state"]
    /\ UNCHANGED <<today, system_state, included_since_midnight,
                   engine_halt_pending, n_records>>
    /\ UNCHANGED loop_vars
    /\ UNCHANGED subsystem_vars

\* ------------------------------------------------------------------------
\* Time
\* ------------------------------------------------------------------------

\* 00:00 UTC passes
MidnightPasses ==
    /\ pc = "top"
    /\ today < MaxDays
    /\ today' = today + 1
    /\ included_since_midnight' = 0
    /\ last_op' = [op |-> "midnight"]
    /\ UNCHANGED <<controller, system_state, engine_halt_pending, n_records>>
    /\ UNCHANGED loop_vars
    /\ UNCHANGED subsystem_vars

\* the cached metrics reach the age of 600 s
MetricsCacheExpires ==
    /\ pc = "top"
    /\ controller.metrics_fresh
    /\ controller' = [controller EXCEPT !.metrics_fresh = FALSE]
    /\ last_op' = [op |-> "cache_expires"]
    /\ UNCHANGED <<today, system_state, included_since_midnight,
                   engine_halt_pending, n_records>>
    /\ UNCHANGED loop_vars
    /\ UNCHANGED subsystem_vars

NextSC ==
    \/ RecordExecution
    \/ ManualResume
    \/ ValidateExecutionCall
    \/ CheckAndApplyTransitionsCall
    \/ CalculateMetricsCall
    \/ CanExecuteCall
    \/ TransitionToHaltedCall
    \/ MidnightPasses
    \/ MetricsCacheExpires

InitSC == Init /\ ~dry_run

\* The Safety Controller driven through its public operations
SpecSC == InitSC /\ [][NextSC]_vars

\* ------------------------------------------------------------------------
\* The daily volume: bundles are validated and submitted, and the outcome
\* of a submitted bundle is recorded later, within one UTC day
\* ------------------------------------------------------------------------

\* net_profit_usd of the candidates: the largest a single execution may
\* have, and one above it
VolumeProfits == {max_single_execution_usd, max_single_execution_usd + 1}

\* The outcome of a submitted bundle of the largest net profit: not
\* included, included with the net profit realised in full, included with
\* 80% of it
SubmittedOutcomes ==
    { [bundle_submitted |-> TRUE, included |-> FALSE,
       simulated_profit_usd |-> max_single_execution_usd,
       actual_profit_usd |-> 0],
      [bundle_submitted |-> TRUE, included |-> TRUE,
       simulated_profit_usd |-> max_single_execution_usd,
       actual_profit_usd |-> max_single_execution_usd],
      [bundle_submitted |-> TRUE, included |-> TRUE,
       simulated_profit_usd |-> max_single_execution_usd,
       actual_profit_usd |-> (max_single_execution_usd * 4) \div 5] }

\* main_event_loop, lines 366-404, in production mode: validate_execution,
\* and for an approved bundle a submission that succeeds
ValidateAndSubmit ==
    /\ pc = "top"
    /\ bundles_submitted < MaxApproved
    /\ \E net \in VolumeProfits :
         LET r == ValidateExecution(controller, net, today)
         IN  /\ controller' = r.c
             /\ last_op' = [op |-> "validate_execution", net_profit_usd |-> net,
                            ok |-> r.ok, compared |-> r.compared]
             /\ bundles_submitted' = IF r.ok THEN bundles_submitted + 1
                                     ELSE bundles_submitted
    /\ UNCHANGED <<today, system_state, included_since_midnight,
                   engine_halt_pending, n_records>>
    /\ UNCHANGED <<pc, local_state, positions_left, dry_run, dry_run_stats,
                   last_submit, n_cycles>>
    /\ UNCHANGED subsystem_vars

\* record_execution for a submitted bundle whose outcome is still open
RecordSubmittedOutcome ==
    /\ pc = "top"
    /\ n_records < bundles_submitted
    /\ \E record \in SubmittedOutcomes :
         /\ controller' = RecordExecutionOp(controller, record)
         /\ last_op' = [op |-> "record_execution", record |-> record]
         /\ included_since_midnight' =
              IF record.included
              THEN included_since_midnight + record.actual_profit_usd
              ELSE included_since_midnight
    /\ n_records' = n_records + 1
    /\ UNCHANGED <<today, system_state, engine_halt_pending>>
    /\ UNCHANGED loop_vars
    /\ UNCHANGED subsystem_vars

NextVolume ==
    \/ ValidateAndSubmit
    \/ RecordSubmittedOutcome

InitVolume == Init /\ ~dry_run

SpecVolume == InitVolume /\ [][NextVolume]_vars

\* ------------------------------------------------------------------------
\* Execution Planner, as far as the loop's control flow depends on it
\* ------------------------------------------------------------------------

NoBundle == [none |-> TRUE]

\* What the chain answers to one plan_execution call: the eth_call succeeds
\* or reverts, the treasury balance changes by simulated_profit_wei, and the
\* cost model leaves net_profit_usd
Simulations ==
    {[success |-> FALSE, simulated_profit_wei |-> 0, net_profit_usd |-> 0]}
    \cup {[success |-> TRUE, simulated_profit_wei |-> w, net_profit_usd |-> n] :
              w \in {0, 1}, n \in {49, 50, 501}}

\* Variant of the simulation test without the profit check
SimulationPassesAnyProfit(sim) ==
    sim.success

\* _simulate_transaction returns a result (lines 404-426): the call did not
\* revert and the treasury balance grew
SimulationPasses(sim) ==
    sim.success /\ ~(sim.simulated_profit_wei <= 0)

\* plan_execution(opportunity, ...): the Bundle, or NoBundle for None
PlanExecution(sim) ==
    IF ~SimulationPasses(sim) THEN NoBundle
    ELSE IF sim.net_profit_usd < min_profit_usd THEN NoBundle
    ELSE IF sim.net_profit_usd <= 0 THEN NoBundle   \* Bundle.validate_profitable
    ELSE [none |-> FALSE,
          simulation_success |-> sim.success,
          simulated_profit_wei |-> sim.simulated_profit_wei,
          net_profit_usd |-> sim.net_profit_usd]

\* ------------------------------------------------------------------------
\* ExecutionPlanner: cost model and bribe model (execution_planner.py).
\* Token amounts are in units of 10^16 wei and USD amounts in cents, so
\* that Decimal(wei) / 10^18 * price_usd is amount * price; percentages
\* are applied with \div to inputs on which the division is exact.
\* ------------------------------------------------------------------------

Min(a, b) == IF a < b THEN a ELSE b
Max(a, b) == IF a > b THEN a ELSE b

\* Variant of the bribe adjustment without the cap and the floor
BribeAfterUnclamped(bribe_percent, n, included) ==
    IF included * 100 < bribe_raise_below_pct * n
    THEN bribe_percent + bribe_increase_percent
    ELSE IF included * 100 > bribe_lower_above_pct * n
         THEN bribe_percent - bribe_decrease_percent
         ELSE bribe_percent

\* update_bribe_model, "Adjust bribe based on inclusion rate", for a window
\* of n records of which included were included
BribeAfter(bribe_percent, n, included) ==
    IF included * 100 < bribe_raise_below_pct * n
    THEN Min(bribe_percent + bribe_increase_percent, max_bribe_percent)
    ELSE IF included * 100 > bribe_lower_above_pct * n
         THEN Max(bribe_percent - bribe_decrease_percent, baseline_bribe_percent)
         ELSE bribe_percent

\* ExecutionPlanner.update_bribe_model
UpdateBribeModelOp(pl, n, included) ==
    IF n < bribe_window
    THEN pl
    ELSE [pl EXCEPT !.bribe_percent = BribeAfter(@, n, included),
                    !.bribe_update_counter = @ + 1]

\* Decimal(amount) / Decimal(10**18) * price_usd
ToUsd(amount, price_usd) == amount * price_usd

\* _calculate_l1_data_cost: the oracle's getL1Fee in USD, or the estimate
\* of $0.001 per calldata byte when the oracle call fails
L1DataCost(l1, eth_usd_price) ==
    IF l1.oracle_ok
    THEN ToUsd(l1.l1_fee_wei, eth_usd_price)
    ELSE l1.calldata_size \div 10

\* Variant of the total that leaves the slippage allowance out
TotalCostWithoutSlippage(l2, l1, bribe, flash, slippage) ==
    (l2 + l1) + bribe + flash

\* _calculate_costs: total_gas_cost_usd + bribe + flash loan + slippage
TotalCost(l2, l1, bribe, flash, slippage) ==
    (l2 + l1) + bribe + flash + slippage

\* ExecutionPlanner._calculate_costs: the cost breakdown, or none when the
\* bribe exceeds the cap
CalculateCosts(c, bribe_percent) ==
    LET l2_gas_cost_usd ==
            ToUsd(c.gas_estimate * (c.base_fee + c.priority_fee), c.eth_usd_price)
        l1_data_cost_usd == L1DataCost(c.l1, c.eth_usd_price)
        simulated_profit_usd == ToUsd(c.simulated_profit_wei, c.debt_price_usd)
        bribe_usd == (simulated_profit_usd * bribe_percent) \div 100
        max_bribe_usd == (simulated_profit_usd * max_bribe_percent) \div 100
        flash_loan_cost_usd ==
            (ToUsd(c.debt_amount, c.debt_price_usd) * flash_loan_premium_bp)
                \div 10000
        slippage_cost_usd ==
            (ToUsd(c.collateral_amount, c.collateral_price_usd)
                * max_slippage_percent) \div 100
        total_cost_usd == TotalCost(l2_gas_cost_usd, l1_data_cost_usd, bribe_usd,
                                    flash_loan_cost_usd, slippage_cost_usd)
    IN  IF bribe_usd > max_bribe_usd
        THEN [none |-> TRUE]
        ELSE [none |-> FALSE,
              simulated_profit_usd |-> simulated_profit_usd,
              l2_gas_cost_usd |-> l2_gas_cost_usd,
              l1_data_cost_usd |-> l1_data_cost_usd,
              bribe_usd |-> bribe_usd,
              flash_loan_cost_usd |-> flash_loan_cost_usd,
              slippage_cost_usd |-> slippage_cost_usd,
              total_cost_usd |-> total_cost_usd,
              net_profit_usd |-> simulated_profit_usd - total_cost_usd]

\* ExecutionPlanner.plan_execution from the simulation result on: the
\* Bundle with its cost fields, or NoBundle.  The minimum profit is in
\* dollars, the breakdown in cents; Bundle.validate_profitable raises on a
\* net profit that is not above 0.  submission_path, which
\* _select_submission_path picks from the adapters' statistics, does not
\* enter the cost fields and is left out.
PlanBundle(c, bribe_percent) ==
    LET cost_breakdown == CalculateCosts(c, bribe_percent)
    IN  IF ~c.simulation_success \/ c.simulated_profit_wei <= 0 THEN NoBundle
        ELSE IF cost_breakdown.none THEN NoBundle
        ELSE IF cost_breakdown.net_profit_usd < min_profit_usd * 100 THEN NoBundle
        ELSE IF cost_breakdown.net_profit_usd <= 0 THEN NoBundle
        ELSE [cost_breakdown EXCEPT !.none = FALSE]

\* ------------------------------------------------------------------------
\* main_event_loop
\* ------------------------------------------------------------------------

\* The test that skips a whole cycle (lines 305-315); gate is the value
\* can_execute() returns when the loop calls it
CycleSkipped(state, gate) ==
    \/ state = HALTED
    \/ state = THROTTLED /\ ~gate

\* Variant of the dry-run test that never skips the submission
SubmissionNeverSkipped(is_dry_run) == FALSE

\* The loop submits in production mode only (line 375: if self.dry_run)
SubmissionSkipped(is_dry_run) == is_dry_run

\* The top of the while loop up to the for loop (lines 300-330).  The loop
\* never ends: the scans after the first MaxCycles cycles find no position.
CycleStart ==
    /\ pc = "top"
    /\ n_cycles' = IF n_cycles < MaxCycles THEN n_cycles + 1 ELSE n_cycles
    /\ local_state' = controller.current_state
    /\ \E gate \in CanExecuteResults(controller),
          n \in IF n_cycles < MaxCycles THEN 0..NumPositions ELSE {0} :
         IF CycleSkipped(controller.current_state, gate) \/ n = 0
         THEN pc' = "top" /\ positions_left' = 0
         ELSE pc' = "scan" /\ positions_left' = n
    /\ last_op' = [op |-> "cycle_start"]
    /\ UNCHANGED <<controller, today, system_state, bundles_submitted, dry_run,
                   dry_run_stats, last_submit, included_since_midnight,
                   engine_halt_pending, n_records>>
    /\ UNCHANGED subsystem_vars

\* What get_recent_executions(100) returns to the loop: n rows of the
\* executions table, included of them marked included.  The planner writes a
\* row with included = False for every rejection and every submission
\* attempt (execution_planner.py:757-848) and the table outlives the
\* process, so the loop can find fewer than 100 rows or 100.
RecentExecutions ==
    [n : {bribe_window - 1, bribe_window}, included : {0}]

\* The submission counts the planner history carries: -1 before the first
NeverUpdated == -1
AppliedAt(op) == IF op.op = "metrics_update" THEN op.applied_at ELSE NeverUpdated
ChangedAt(op) == IF op.op = "metrics_update" THEN op.changed_at ELSE NeverUpdated

\* The planner history after the loop has called update_bribe_model with
\* the window w at a submission counter of submitted: applied_at and
\* changed_at are the counter at the last call that went past the length
\* test and at the last call that changed bribe_percent
MetricsUpdateOp(pl, op, w, submitted) ==
    LET after == UpdateBribeModelOp(pl, w.n, w.included)
    IN  [op |-> "metrics_update",
         n |-> w.n,
         included |-> w.included,
         applied_at |-> IF after.bribe_update_counter # pl.bribe_update_counter
                        THEN submitted ELSE AppliedAt(op),
         changed_at |-> IF after.bribe_percent # pl.bribe_percent
                        THEN submitted ELSE ChangedAt(op)]

\* One iteration of the for loop (lines 331-433).
\* found: check_position returned an Opportunity; sim: the simulation's
\* answer; sent: submit_bundle succeeded; recent: the rows that
\* get_recent_executions returns if the loop asks for them.
HandlePosition(found, sim, sent, recent) ==
    LET bundle == IF found THEN PlanExecution(sim) ELSE NoBundle
        v == IF bundle.none
             THEN [c |-> controller, ok |-> FALSE, compared |-> FALSE]
             ELSE ValidateExecution(controller, bundle.net_profit_usd, today)
        submits == v.ok /\ ~SubmissionSkipped(dry_run)
        submitted_after == IF submits /\ sent THEN bundles_submitted + 1
                           ELSE bundles_submitted
        \* line 417, reached after a failed submission as well
        updates == submits /\ submitted_after % metrics_update_every = 0
    IN  /\ dry_run_stats' =
              IF ~dry_run \/ ~found THEN dry_run_stats
              ELSE IF bundle.none
              THEN [dry_run_stats EXCEPT !.failed = @ + 1]
              ELSE IF v.ok
              THEN [dry_run_stats EXCEPT
                      !.success = @ + 1,
                      !.theoretical_profit = @ + bundle.net_profit_usd]
              ELSE dry_run_stats
        /\ last_submit' =
              IF submits
              THEN [called |-> TRUE,
                    state_at_call |-> v.c.current_state,
                    engine_halt_pending |-> engine_halt_pending,
                    planned_from |-> sim,
                    bundle |-> bundle,
                    approved |-> v.ok,
                    dry_run |-> dry_run]
              ELSE last_submit
        /\ bundles_submitted' = submitted_after
        \* lines 416-425: update the bribe model and the system state
        /\ planner' =
              IF updates
              THEN UpdateBribeModelOp(planner, recent.n, recent.included)
              ELSE planner
        /\ planner_op' =
              IF updates
              THEN MetricsUpdateOp(planner, planner_op, recent, submitted_after)
              ELSE planner_op
        /\ controller' =
              IF updates
              THEN CheckAndApplyTransitions(v.c)
              ELSE v.c
        /\ last_op' = [op |-> "handle_position",
                        approved |-> v.ok,
                        net_profit_usd |-> IF v.ok THEN bundle.net_profit_usd
                                           ELSE 0]

ProcessPosition ==
    /\ pc = "scan"
    /\ \E found \in BOOLEAN, sim \in Simulations, sent \in BOOLEAN,
          recent \in RecentExecutions :
         HandlePosition(found, sim, sent, recent)
    /\ positions_left' = positions_left - 1
    /\ pc' = IF positions_left = 1 THEN "top" ELSE "scan"
    /\ UNCHANGED <<today, system_state, local_state, dry_run,
                   included_since_midnight, engine_halt_pending, n_records,
                   n_cycles>>
    /\ UNCHANGED <<rule_case, cache_vars, ws>>

\* ------------------------------------------------------------------------
\* State Engine
\* ------------------------------------------------------------------------

\* set_system_state(state)
SetSystemState(current, state) ==
    IF state # current THEN state ELSE current

\* One tick of _monitor_health (lines 378-404); stalled: no new block for
\* more than 10 seconds; quiet: no WebSocket message for more than 30
\* seconds; reachable: the connect that failover makes succeeds
MonitorHealth ==
    /\ pc = "top"
    /\ \E stalled \in BOOLEAN :
         /\ system_state' = IF stalled THEN SetSystemState(system_state, HALTED)
                            ELSE system_state
         /\ engine_halt_pending' = (engine_halt_pending \/ stalled)
         /\ last_op' = [op |-> "monitor_health"]
    /\ \E quiet \in BOOLEAN, reachable \in BOOLEAN :
         ws' = IF ws.started /\ (~ws.is_connected \/ quiet)
               THEN WsFailoverOp(ws, reachable)
               ELSE ws
    /\ UNCHANGED <<controller, today, included_since_midnight, n_records>>
    /\ UNCHANGED loop_vars
    /\ UNCHANGED <<rule_case, cache_vars, planner_vars>>

Next ==
    \/ CycleStart
    \/ ProcessPosition
    \/ RecordExecution
    \/ ManualResume
    \/ MonitorHealth

\* The bot: the main event loop, with outcomes recorded, the operator and
\* the health monitor acting while the loop sleeps.  The clock is left to
\* SpecSC: the loop reads it only through validate_execution.
Spec == Init /\ [][Next]_vars

\* The bot with its own tasks scheduled: the event loop keeps running
\* (asyncio keeps main_event_loop and _monitor_health going), while nothing in
\* the bot schedules record_execution or the operator
LoopFairness ==
    /\ WF_vars(CycleStart)
    /\ WF_vars(ProcessPosition)
    /\ WF_vars(MonitorHealth)

SpecLive == Init /\ [][Next]_vars /\ LoopFairness

\* ------------------------------------------------------------------------
\* The transition rules of check_and_apply_transitions on their own: the
\* metrics are drawn around the thresholds and the sample sizes
\* ------------------------------------------------------------------------

\* Average simulation accuracy of a window, in percent
AccuracyLevels == {84, 85, 89, 90, 91}

\* PerformanceMetrics over windows of up to MaxSamples entries
MetricsSamples ==
    {[none |-> FALSE,
      total_submissions |-> n,
      successful_inclusions |-> k,
      total_executions |-> e,
      accuracy_pct_sum |-> a * e,
      total_profit_usd |-> 0,
      consecutive_failures |-> f] :
        n \in 0..MaxSamples, k \in 0..MaxSamples, e \in 0..MaxSamples,
        a \in AccuracyLevels,
        f \in {0, max_consecutive_failures - 1, max_consecutive_failures}}

RuleCases ==
    {[none |-> FALSE, applied |-> FALSE, current |-> st, m |-> m, after |-> st] :
        st \in SystemState,
        m \in {x \in MetricsSamples :
                  x.successful_inclusions <= x.total_submissions}}

InitRules ==
    /\ BotInit
    /\ ~dry_run
    /\ rule_case \in RuleCases
    /\ CacheStart(TRUE)
    /\ ws = WsNotStarted
    /\ PlannerStart

\* check_and_apply_transitions on the state and the metrics of the case
ApplyTransitionRules ==
    /\ ~rule_case.none
    /\ ~rule_case.applied
    /\ rule_case' = [rule_case EXCEPT
                        !.applied = TRUE,
                        !.after = TransitionTarget(rule_case.current, rule_case.m)]
    /\ UNCHANGED <<bot_vars, cache_vars, ws, planner_vars>>

NextRules == ApplyTransitionRules

SpecRules == InitRules /\ [][NextRules]_vars

\* ------------------------------------------------------------------------
\* The position cache exercised on its own: blocks arrive, positions are
\* upserted, events applied, the cache reconciled and scanned, while the
\* external store expires entries and comes and goes
\* ------------------------------------------------------------------------
CollateralAmounts == {10000}
DebtAmounts == {10000, 10010, 10011}
EventAmounts == {10000}
TrackedDebts == {0, 10, 11, 10000, 10010, 10011}
Timestamps == {1}

\* What _fetch_canonical_position can return for one position
CanonicalData ==
    {[none |-> TRUE]} \cup
    {[none |-> FALSE, collateral_amount |-> c, debt_amount |-> d] :
        c \in {10000, 10011}, d \in {0, 10000}}

\* What check_position finds out about one position: whether both
\* Chainlink prices are available, the prices (positive, in USD), the oracle
\* sanity check, the protocol state check and the estimated net profit
Observations ==
    [prices_ok : BOOLEAN,
     collateral_price : {4, 5, 6},
     debt_price : {4},
     sane : BOOLEAN,
     protocol_ok : BOOLEAN,
     estimated_net : {min_profit_usd - 1, min_profit_usd}]

\* The observations with the health factor well below or well above 1
CoarseObservations == {obs \in Observations : obs.collateral_price # 5}

\* A guard that tolerates no gap at all: every skipped block halts
SequencerHaltsOnAnyGap(e, block_number, block_timestamp) ==
    /\ e.previous_block > 0
    /\ block_number # e.previous_block + 1
    /\ \/ block_number - e.previous_block > 1
       \/ e.previous_block - block_number + 1 > 3

\* StateEngine._check_sequencer_health, called after _process_new_block has
\* stored the header: TRUE when it halts the system
SequencerHalts(e, block_number, block_timestamp) ==
    LET gap == block_number - e.previous_block
        reorg_depth == e.previous_block - block_number + 1
        time_diff == block_timestamp - e.last_block_timestamp
    IN  IF /\ e.previous_block > 0
           /\ block_number # e.previous_block + 1
           /\ \/ gap > 1 /\ gap > 3
              \/ gap < 1 /\ reorg_depth > 3
        THEN TRUE
        ELSE /\ e.last_block_timestamp > 0
             /\ (time_diff > 20 \/ time_diff < 0)

\* What the cache operations leave alone
cache_frame == <<controller, today, pc, local_state, positions_left,
                 bundles_submitted, dry_run, dry_run_stats, last_op,
                 last_submit, included_since_midnight, engine_halt_pending,
                 n_records, n_cycles, rule_case, ws, planner_vars>>

\* What block processing leaves alone besides the listener that called it
block_frame == <<controller, today, pc, local_state, positions_left,
                 bundles_submitted, dry_run, dry_run_stats, last_submit,
                 included_since_midnight, engine_halt_pending, n_records,
                 n_cycles, rule_case, planner_vars>>

\* StateEngine._process_new_block for a header drawn from blocks and
\* timestamps.  The record left in cache_op tells what the step did: the
\* timestamp the engine held before the header arrived, whether the guard
\* halted, whether the checkpoint was saved, whether events were applied
\* and the cache reconciled (both calls are commented out at lines 299 and
\* 302), and run, the number of block-processing steps in a row ending in
\* this one with no other cache operation in between, counted up to run_cap
ProcessNewBlockStep(blocks, timestamps, run_cap) ==
    \E block_number \in blocks, block_timestamp \in timestamps :
        LET e1 == [engine EXCEPT
                      !.previous_block = engine.current_block,
                      !.current_block = block_number,
                      !.last_block_timestamp = block_timestamp]
            halts == SequencerHalts(e1, block_number, block_timestamp)
            checkpoint == block_number - e1.last_checkpoint_block
                              >= checkpoint_interval
        IN  /\ engine' = IF checkpoint
                         THEN [e1 EXCEPT !.last_checkpoint_block = block_number]
                         ELSE e1
            /\ system_state' =
                  IF halts
                  THEN SetSystemState(system_state, HALTED)
                  ELSE system_state
            \* _save_checkpoint writes "checkpoint:last_block", not a
            \* position key: of the cache it can only switch the layer
            /\ redis' = IF checkpoint /\ ~redis.use_fallback /\ ~redis_up
                        THEN [redis EXCEPT !.use_fallback = TRUE]
                        ELSE redis
            /\ cache_op' = [op |-> "process_new_block",
                            previous_timestamp |-> engine.last_block_timestamp,
                            halted |-> halts,
                            checkpoint_saved |-> checkpoint,
                            events_applied |-> FALSE,
                            reconciled |-> FALSE,
                            run |-> IF cache_op.op = "process_new_block"
                                    THEN Min(cache_op.run + 1, run_cap)
                                    ELSE 1]
            /\ UNCHANGED <<redis_up, streak, block_frame>>

\* _process_new_block as one step of the listener
ProcessNewBlockWith(blocks, timestamps, run_cap) ==
    /\ ProcessNewBlockStep(blocks, timestamps, run_cap)
    /\ UNCHANGED <<ws, last_op>>

\* A header arrives while positions are being cached
ProcessNewBlock == ProcessNewBlockWith(1..MaxBlock, Timestamps, 1)

\* StateEngine.update_position at the block being processed, with the
\* amounts drawn from collaterals and debts
UpdatePositionWith(collaterals, debts) ==
    \E key \in PositionKeys, c \in collaterals, d \in debts :
        /\ redis' = UpdatePositionOp(redis, redis_up, key, c, d,
                                     engine.current_block)
        /\ cache_op' = [op |-> "update_position", key |-> key]
        /\ UNCHANGED <<redis_up, engine, streak, system_state, cache_frame>>

UpdatePosition == UpdatePositionWith(CollateralAmounts, DebtAmounts)

\* StateEngine.get_position
GetPositionCall ==
    \E key \in PositionKeys :
        LET g == GetPosition(redis, redis_up, key)
        IN  /\ redis' = g.r
            /\ cache_op' = [op |-> "get_position", key |-> key,
                            result |-> g.position]
            /\ UNCHANGED <<redis_up, engine, streak, system_state, cache_frame>>

\* A Borrow or Repay event of the block being processed
\* (_handle_borrow_event, _handle_repay_event -> _update_position_debt)
ApplyDebtEvent ==
    \E key \in PositionKeys, amount \in EventAmounts, is_increase \in BOOLEAN :
        /\ redis' = UpdatePositionDebtOp(redis, redis_up, key, amount,
                                         engine.current_block, is_increase)
        /\ \A k \in PositionKeys :
              CachedEntry(redis', k).none
              \/ CachedEntry(redis', k).debt_amount \in TrackedDebts
        /\ cache_op' = [op |-> "debt_event", key |-> key]
        /\ UNCHANGED <<redis_up, engine, streak, system_state, cache_frame>>

\* A LiquidationCall event or remove_position: the streak ends with the
\* position
RemovePosition ==
    \E key \in PositionKeys :
        /\ redis' = RemovePositionOp(redis, redis_up, key)
        /\ streak' = [streak EXCEPT ![key] = NoStreak]
        /\ cache_op' = [op |-> "remove_position", key |-> key]
        /\ UNCHANGED <<redis_up, engine, system_state, cache_frame>>

\* StateEngine._reconcile_state at the block being processed, with what
\* the archive endpoint returns for each position drawn from canonicals
ReconcileStateWith(canonicals) ==
    \E canonical \in [PositionKeys -> canonicals] :
        LET rec == ReconcileStateOp(redis, redis_up, canonical,
                                    engine.current_block)
        IN  /\ redis' = rec.r
            /\ system_state' = IF rec.halt
                               THEN SetSystemState(system_state, HALTED)
                               ELSE system_state
            /\ cache_op' = [op |-> "reconcile",
                            divergences |-> rec.divergences,
                            halt |-> rec.halt]
            /\ UNCHANGED <<redis_up, engine, streak, cache_frame>>

ReconcileState == ReconcileStateWith(CanonicalData)

\* calculate_health_factor: none when a price is missing, else the
\* fraction num / den = (collateral_amount * collateral_price *
\* liquidation_threshold) / (debt_amount * debt_price), 999999 for a debt
\* value of 0
HealthFactor(position_dict, obs) ==
    IF ~obs.prices_ok
    THEN [none |-> TRUE]
    ELSE LET collateral_value == position_dict.collateral_amount
                                     * obs.collateral_price
                                     * liquidation_threshold_pct
             debt_value == position_dict.debt_amount * obs.debt_price * 100
         IN  IF debt_value = 0
             THEN [none |-> FALSE, num |-> 999999, den |-> 1]
             ELSE [none |-> FALSE, num |-> collateral_value,
                   den |-> debt_value]

\* Variant of the liquidatability test that takes a health factor of
\* exactly 1 for liquidatable
HealthyOnlyAboveOne(hf) == hf.num > hf.den

\* health_factor >= Decimal("1.0") (line 205)
IsHealthy(hf) == hf.num >= hf.den

\* What check_position makes of the health factor
ObservedHealth(hf) ==
    IF hf.none THEN "none"
    ELSE IF IsHealthy(hf) THEN "healthy"
    ELSE "unhealthy"

\* Variant of check_position that counts an unhealthy block before it
\* looks at the oracle sanity check
CheckPositionOpCountsSuspect(r, up, key, obs, block_number) ==
    LET hf == HealthFactor(CachedEntry(r, key), obs)
        health == ObservedHealth(hf)
    IN  IF health = "none"
        THEN [r |-> r, opportunity |-> FALSE, wrote |-> FALSE,
              health |-> health, health_factor |-> hf]
        ELSE LET u == UpdatePositionHealthOp(r, up, key, health = "healthy",
                                             block_number)
                 g == GetPosition(u.r, up, key)
             IN  IF health = "healthy"
                 THEN [r |-> u.r, opportunity |-> FALSE, wrote |-> u.result,
                       health |-> health, health_factor |-> hf]
                 ELSE IF ~obs.sane
                 THEN [r |-> u.r, opportunity |-> FALSE, wrote |-> u.result,
                       health |-> "suspect", health_factor |-> hf]
                 ELSE [r |-> g.r,
                       opportunity |->
                           /\ ~g.position.none
                           /\ g.position.blocks_unhealthy >= confirmation_blocks
                           /\ obs.protocol_ok
                           /\ obs.estimated_net >= min_profit_usd,
                       wrote |-> u.result,
                       health |-> health, health_factor |-> hf]

\* OpportunityDetector.check_position for the position cached under key
CheckPositionOp(r, up, key, obs, block_number) ==
    LET hf == HealthFactor(CachedEntry(r, key), obs)
        health == ObservedHealth(hf)
    IN  IF health = "none"
        THEN [r |-> r, opportunity |-> FALSE, wrote |-> FALSE,
              health |-> health, health_factor |-> hf]
        ELSE IF health = "healthy"
        THEN LET u == UpdatePositionHealthOp(r, up, key, TRUE, block_number)
             IN  [r |-> u.r, opportunity |-> FALSE, wrote |-> u.result,
                  health |-> health, health_factor |-> hf]
        ELSE IF ~obs.sane
        THEN [r |-> r, opportunity |-> FALSE, wrote |-> FALSE,
              health |-> "suspect", health_factor |-> hf]
        ELSE LET u == UpdatePositionHealthOp(r, up, key, FALSE, block_number)
                 g == GetPosition(u.r, up, key)
             IN  [r |-> g.r,
                  opportunity |->
                      /\ ~g.position.none
                      /\ g.position.blocks_unhealthy >= confirmation_blocks
                      /\ obs.protocol_ok
                      /\ obs.estimated_net >= min_profit_usd,
                  wrote |-> u.result,
                  health |-> health, health_factor |-> hf]

\* The streak of one position after check_position found health at
\* block_number; a suspect observation is one below 1 that failed the oracle
\* sanity check
StreakAfter(s, health, wrote, entry, block_number) ==
    [blocks |-> IF health = "healthy" THEN {}
                ELSE IF health \in {"unhealthy", "suspect"}
                     THEN s.blocks \cup {block_number}
                     ELSE s.blocks,
     count |-> IF wrote THEN entry.blocks_unhealthy ELSE s.count]

\* get_all_positions followed by check_position on each position returned,
\* as the detector's _scan_loop and the main event loop both do
RECURSIVE ScanKeys(_, _, _, _, _, _)
ScanKeys(r, up, ks, obs, block_number, s) ==
    IF ks = {}
    THEN [r |-> r, opportunities |-> {}, streak |-> s, checked |-> {}]
    ELSE LET k == CHOOSE x \in ks : TRUE
             c == CheckPositionOp(r, up, k, obs[k], block_number)
             s1 == [s EXCEPT ![k] = StreakAfter(@, c.health, c.wrote,
                                               CachedEntry(c.r, k),
                                               block_number)]
             rest == ScanKeys(c.r, up, ks \ {k}, obs, block_number, s1)
         IN  [r |-> rest.r,
              opportunities |-> rest.opportunities \cup
                                (IF c.opportunity THEN {k} ELSE {}),
              streak |-> rest.streak,
              checked |-> rest.checked \cup
                          {[key |-> k, health |-> c.health,
                            health_factor |-> c.health_factor,
                            opportunity |-> c.opportunity]}]

\* StateEngine.get_all_positions: the keys whose entry is present and a
\* valid Position
RECURSIVE GetAllPositions(_, _, _)
GetAllPositions(r, up, ks) ==
    IF ks = {}
    THEN [r |-> r, keys |-> {}]
    ELSE LET k == CHOOSE x \in ks : TRUE
             g == RedisGet(r, up, k)
             rest == GetAllPositions(g.r, up, ks \ {k})
         IN  [r |-> rest.r,
              keys |-> rest.keys \cup
                       (IF ValidPosition(g.value) THEN {k} ELSE {})]

\* One pass over the cached positions, by the detector's scan loop or by
\* the main event loop, with what the checks find drawn from observations
ScanPositionsWith(observations) ==
    \E caller \in {"scan_loop", "main_event_loop"},
       obs \in [PositionKeys -> observations] :
        LET ks == RedisKeys(redis, redis_up)
            all == GetAllPositions(ks.r, redis_up, ks.keys)
            scan == ScanKeys(all.r, redis_up, all.keys, obs,
                             engine.current_block, streak)
        IN  /\ all.keys # {}
            /\ redis' = scan.r
            /\ \A k \in PositionKeys :
                  CachedEntry(redis', k).none
                  \/ CachedEntry(redis', k).blocks_unhealthy <= MaxStreak
            /\ streak' = scan.streak
            /\ cache_op' = [op |-> "scan", caller |-> caller,
                            opportunities |-> scan.opportunities,
                            checked |-> scan.checked]
            /\ UNCHANGED <<redis_up, engine, system_state, cache_frame>>

ScanPositions == ScanPositionsWith(CoarseObservations)

\* The external store drops an entry whose TTL has run out
StoreEntryExpires ==
    \E key \in PositionKeys :
        /\ ~redis.store[key].none
        /\ redis' = [redis EXCEPT !.store[key] = NoEntry]
        /\ cache_op' = [op |-> "store_entry_expires", key |-> key]
        /\ UNCHANGED <<redis_up, engine, streak, system_state, cache_frame>>

\* An entry of the in-process layer reaches the age of the TTL
MemoryEntryAges ==
    \E key \in PositionKeys :
        /\ ~redis.memory[key].none
        /\ redis.memory[key].fresh
        /\ redis' = [redis EXCEPT !.memory[key].fresh = FALSE]
        /\ cache_op' = [op |-> "memory_entry_ages", key |-> key]
        /\ UNCHANGED <<redis_up, engine, streak, system_state, cache_frame>>

\* The external store becomes unreachable, or reachable again
RedisConnectivityChanges ==
    /\ redis_up' = ~redis_up
    /\ cache_op' = [op |-> "connectivity"]
    /\ UNCHANGED <<redis, engine, streak, system_state, cache_frame>>

NextCache ==
    \/ ProcessNewBlock
    \/ UpdatePosition
    \/ GetPositionCall
    \/ ApplyDebtEvent
    \/ RemovePosition
    \/ ReconcileState
    \/ StoreEntryExpires
    \/ MemoryEntryAges
    \/ RedisConnectivityChanges

InitCache ==
    /\ BotInit
    /\ ~dry_run
    /\ rule_case = NoRuleCase
    /\ ws = WsNotStarted
    /\ PlannerStart
    /\ \E up \in BOOLEAN : CacheStart(up)

SpecCache == InitCache /\ [][NextCache]_vars

\* The detector over the cache while the external store stays reachable:
\* blocks arrive, positions are upserted, scanned, removed and expire
NextDetector ==
    \/ ProcessNewBlock
    \/ UpdatePosition
    \/ ScanPositions
    \/ RemovePosition
    \/ StoreEntryExpires

InitDetector ==
    /\ BotInit
    /\ ~dry_run
    /\ rule_case = NoRuleCase
    /\ ws = WsNotStarted
    /\ PlannerStart
    /\ CacheStart(TRUE)

SpecDetector == InitDetector /\ [][NextDetector]_vars

\* ------------------------------------------------------------------------
\* check_position around a health factor of 1: blocks arrive, a position
\* with collateral and debt of equal amounts is upserted and scanned at
\* collateral prices that put its health factor below 1, at 1 and above 1
\* ------------------------------------------------------------------------
UpdateEvenPosition == UpdatePositionWith({10000}, {10000})

ScanAroundOne == ScanPositionsWith(Observations)

NextHealth ==
    \/ ProcessNewBlock
    \/ UpdateEvenPosition
    \/ ScanAroundOne

InitHealth ==
    /\ BotInit
    /\ ~dry_run
    /\ rule_case = NoRuleCase
    /\ ws = WsNotStarted
    /\ PlannerStart
    /\ CacheStart(TRUE)

SpecHealth == InitHealth /\ [][NextHealth]_vars

\* ------------------------------------------------------------------------
\* The sequencer guard exercised on its own: headers arrive with block
\* numbers that skip ahead and fall back and with timestamps that jump and
\* go backwards, and the cache is reconciled from outside block processing
\* ------------------------------------------------------------------------
HeaderTimestamps == {1, 2, 30}

ProcessHeader == ProcessNewBlockWith(1..MaxHeader, HeaderTimestamps, MaxRun)

NextSequencer ==
    \/ ProcessHeader
    \/ ReconcileState

InitSequencer ==
    /\ BotInit
    /\ ~dry_run
    /\ rule_case = NoRuleCase
    /\ ws = WsNotStarted
    /\ PlannerStart
    /\ CacheStart(TRUE)

SpecSequencer == InitSequencer /\ [][NextSequencer]_vars

\* ------------------------------------------------------------------------
\* Reconciliation of debts a few percent apart: blocks arrive, a position is
\* upserted with a debt around 1.00e18 and the cache is reconciled against a
\* canonical debt of 1.00e18 or 1.02e18.  Amounts are in units of 10^16, which
\* leaves the basis points unchanged.
\* ------------------------------------------------------------------------
NearbyCollateral == {100}
NearbyDebts == {98, 100, 102, 104}

NearbyCanonicalData ==
    {[none |-> TRUE]} \cup
    {[none |-> FALSE, collateral_amount |-> c, debt_amount |-> d] :
        c \in NearbyCollateral, d \in {100, 102}}

UpdateNearbyPosition == UpdatePositionWith(NearbyCollateral, NearbyDebts)

ReconcileNearby == ReconcileStateWith(NearbyCanonicalData)

NextReconcile ==
    \/ ProcessNewBlock
    \/ UpdateNearbyPosition
    \/ ReconcileNearby

InitReconcile ==
    /\ BotInit
    /\ ~dry_run
    /\ rule_case = NoRuleCase
    /\ ws = WsNotStarted
    /\ PlannerStart
    /\ CacheStart(TRUE)

SpecReconcile == InitReconcile /\ [][NextReconcile]_vars

\* ------------------------------------------------------------------------
\* The WebSocket connection on its own: the engine starts the manager, the
\* connection is made, lost and retried, and the health monitor ticks
\* ------------------------------------------------------------------------
ws_frame == <<controller, today, pc, local_state, positions_left,
              bundles_submitted, dry_run, dry_run_stats, last_submit,
              included_since_midnight, engine_halt_pending, n_records,
              n_cycles, rule_case, cache_vars, planner_vars>>

\* StateEngine.start: the manager is created and its start() task launched
EngineStart ==
    /\ ~ws.started
    /\ ws' = WsCreated
    /\ last_op' = [op |-> "engine_start"]
    /\ UNCHANGED <<system_state, ws_frame>>

\* start(): "if not self.is_connected: await self.connect()"; a failure is
\* handled by the reconnection
WsConnect ==
    /\ ws.task = "connecting"
    /\ \E success \in BOOLEAN :
         ws' = [WsConnectOp(ws, success) EXCEPT
                  !.task = IF success THEN "listening" ELSE "reconnecting"]
    /\ last_op' = [op |-> "ws_connect"]
    /\ UNCHANGED <<system_state, ws_frame>>

\* start(): ConnectionClosed (or another error) while listening
WsConnectionClosed ==
    /\ ws.task = "listening"
    /\ ws' = [ws EXCEPT !.is_connected = FALSE, !.task = "reconnecting"]
    /\ last_op' = [op |-> "ws_connection_closed"]
    /\ UNCHANGED <<system_state, ws_frame>>

\* One invocation of reconnect()
WsReconnect ==
    /\ ws.task = "reconnecting"
    /\ \E success \in BOOLEAN : ws' = WsReconnectOp(ws, success)
    /\ last_op' = [op |-> "ws_reconnect"]
    /\ UNCHANGED <<system_state, ws_frame>>

\* start(): a newHeads message arrives on the open connection and
\* _handle_ws_message passes the header to _process_new_block
WsNewHead ==
    /\ ws.task = "listening"
    /\ ProcessNewBlock

NextWs ==
    \/ EngineStart
    \/ WsConnect
    \/ WsConnectionClosed
    \/ WsReconnect
    \/ WsNewHead
    \/ MonitorHealth

InitWs ==
    /\ BotInit
    /\ ~dry_run
    /\ SubsystemsInit

SpecWs == InitWs /\ [][NextWs]_vars

\* ------------------------------------------------------------------------
\* The listener message by message: start() takes a newHeads message from
\* the connection, awaits on_message (_handle_ws_message ->
\* _process_new_block) and only then takes the next one, while the health
\* monitor ticks and fails over in between
\* ------------------------------------------------------------------------

\* A listener that hands the message to a task of its own and goes on
ListenerTakesMessageWhileHandling(w) == w.task \in {"listening", "handling"}

\* start(), lines 141-146: the async for yields the next message once
\* "await self.on_message(data)" has returned
ListenerTakesMessage(w) == w.task = "listening"

\* start(): a newHeads message is taken and on_message is called
WsMessageReceived ==
    /\ ListenerTakesMessage(ws)
    /\ ws.handling < MaxHandlers
    /\ ws' = [ws EXCEPT !.task = "handling", !.handling = @ + 1]
    /\ last_op' = [op |-> "ws_message", in_progress |-> ws.handling]
    /\ UNCHANGED <<system_state, ws_frame>>

\* _process_new_block runs to its end and on_message returns
WsBlockProcessed ==
    /\ ws.task = "handling"
    /\ ProcessNewBlockStep(1..MaxBlock, Timestamps, 1)
    /\ ws' = [ws EXCEPT !.handling = @ - 1,
                        !.task = IF ws.handling = 1 THEN "listening"
                                 ELSE "handling"]
    /\ last_op' = [op |-> "block_processed", in_progress |-> ws.handling]

\* The scanning loops find the position's health factor below 1
UnhealthyObservations ==
    {obs \in Observations :
        /\ obs.prices_ok /\ obs.sane /\ obs.protocol_ok
        /\ obs.collateral_price = 4
        /\ obs.estimated_net = min_profit_usd}

ScanWhileListening == ScanPositionsWith(UnhealthyObservations)

NextListener ==
    \/ UpdateEvenPosition
    \/ ScanWhileListening
    \/ EngineStart
    \/ WsConnect
    \/ WsConnectionClosed
    \/ WsReconnect
    \/ WsMessageReceived
    \/ WsBlockProcessed
    \/ MonitorHealth

InitListener ==
    /\ BotInit
    /\ ~dry_run
    /\ SubsystemsInit

SpecListener == InitListener /\ [][NextListener]_vars

\* ------------------------------------------------------------------------
\* The planner on its own: opportunities are costed at the current bribe
\* and the bribe model is updated from windows of recent submissions
\* ------------------------------------------------------------------------

\* What one plan_execution call meets: the simulation result, the fees and
\* prices, the L1 oracle, and the position's amounts
CostInputs ==
    [simulation_success : BOOLEAN,
     simulated_profit_wei : {0, 4000, 10000, 20000},
     gas_estimate : {1, 2},
     base_fee : {0, 1},
     priority_fee : {0, 1},
     eth_usd_price : {2000},
     l1 : {[oracle_ok |-> TRUE, l1_fee_wei |-> 1, calldata_size |-> 100],
           [oracle_ok |-> FALSE, l1_fee_wei |-> 0, calldata_size |-> 100]},
     debt_price_usd : {1},
     collateral_price_usd : {1},
     debt_amount : {10000, 100000},
     collateral_amount : {10000, 200000}]

\* The windows handed to update_bribe_model: n records, included of them
\* included
BribeWindows ==
    [n : {bribe_window - 1, bribe_window},
     included : {0, 40, 59, 60, 61, 90, 91, 95}]

planner_frame == <<bot_vars, rule_case, cache_vars, ws>>

\* plan_execution(opportunity, current_state, eth_usd_price)
PlanExecutionCall ==
    \E c \in CostInputs :
        /\ planner_op' = [op |-> "plan_execution",
                          simulated_profit_wei |-> c.simulated_profit_wei,
                          bundle |-> PlanBundle(c, planner.bribe_percent)]
        /\ UNCHANGED <<planner, planner_frame>>

\* update_bribe_model(recent_submissions)
UpdateBribeModel ==
    \E w \in BribeWindows :
        /\ planner.bribe_update_counter < MaxBribeUpdates
        /\ planner' = UpdateBribeModelOp(planner, w.n, w.included)
        /\ planner_op' = [op |-> "update_bribe_model",
                          old_bribe |-> planner.bribe_percent,
                          n |-> w.n, included |-> w.included]
        /\ UNCHANGED planner_frame

NextPlanner ==
    \/ PlanExecutionCall
    \/ UpdateBribeModel

InitPlanner ==
    /\ BotInit
    /\ ~dry_run
    /\ SubsystemsInit

SpecPlanner == InitPlanner /\ [][NextPlanner]_vars

\* ------------------------------------------------------------------------
\* The life of a cached position: blocks arrive (a later header may carry
\* a lower number), the position is upserted, Borrow, Repay and
\* LiquidationCall events are applied to it, and the store comes and goes
\* ------------------------------------------------------------------------
RepayAmounts == {5000, 10000}
BorrowAmounts == {5000}
LifecycleDebts == {0, 5000, 10000, 15000}

\* _handle_borrow_event -> _update_position_debt(is_increase=True)
HandleBorrowEvent ==
    \E key \in PositionKeys, amount \in BorrowAmounts :
        /\ redis' = UpdatePositionDebtOp(redis, redis_up, key, amount,
                                         engine.current_block, TRUE)
        /\ \A k \in PositionKeys :
              CachedEntry(redis', k).none
              \/ CachedEntry(redis', k).debt_amount \in LifecycleDebts
        /\ cache_op' = [op |-> "borrow_event", key |-> key,
                        before |-> RedisGet(redis, redis_up, key).value]
        /\ UNCHANGED <<redis_up, engine, streak, system_state, cache_frame>>

\* _handle_repay_event -> _update_position_debt(is_increase=False)
HandleRepayEvent ==
    \E key \in PositionKeys, amount \in RepayAmounts :
        /\ redis' = UpdatePositionDebtOp(redis, redis_up, key, amount,
                                         engine.current_block, FALSE)
        /\ cache_op' = [op |-> "repay_event", key |-> key,
                        before |-> RedisGet(redis, redis_up, key).value]
        /\ UNCHANGED <<redis_up, engine, streak, system_state, cache_frame>>

\* _handle_liquidation_event
HandleLiquidationEvent ==
    \E key \in PositionKeys :
        /\ redis' = RemovePositionOp(redis, redis_up, key)
        /\ streak' = [streak EXCEPT ![key] = NoStreak]
        /\ cache_op' = [op |-> "liquidation_event", key |-> key,
                        before |-> RedisGet(redis, redis_up, key).value]
        /\ UNCHANGED <<redis_up, engine, system_state, cache_frame>>

NextLifecycle ==
    \/ ProcessNewBlock
    \/ UpdateEvenPosition
    \/ HandleBorrowEvent
    \/ HandleRepayEvent
    \/ HandleLiquidationEvent
    \/ RedisConnectivityChanges

InitLifecycle ==
    /\ BotInit
    /\ ~dry_run
    /\ rule_case = NoRuleCase
    /\ ws = WsNotStarted
    /\ PlannerStart
    /\ \E up \in BOOLEAN : CacheStart(up)

SpecLifecycle == InitLifecycle /\ [][NextLifecycle]_vars

\* ------------------------------------------------------------------------
\* Submission: submit_bundle signs the bundle's transaction, hands it to
\* the adapter of its submission path and logs one execution record
\* ------------------------------------------------------------------------

\* submit_bundle's argument to _submit_with_retry (line 642)
max_retries == 3

SubmissionPaths == {"mempool", "builder", "private_rpc"}

\* What the adapter's submit() does each time it is called, should it be
\* called that often: TRUE returns a transaction hash, FALSE raises the
\* transport error.  As many calls as an initial attempt and
\* max_retries retries make.
TransportOutcomes == [1..(max_retries + 1) -> BOOLEAN]

RECURSIVE RetryFrom(_, _, _, _)
\* The for loop of _submit_with_retry from iteration attempt on; waits are
\* the time.sleep arguments so far, in seconds
RetryFrom(outcomes, retries, attempt, waits) ==
    IF attempt >= retries
    THEN [tx_hash |-> FALSE, attempts |-> attempt, waits |-> waits]
    ELSE IF outcomes[attempt + 1]
    THEN [tx_hash |-> TRUE, attempts |-> attempt + 1, waits |-> waits]
    ELSE IF attempt < retries - 1
    THEN RetryFrom(outcomes, retries, attempt + 1, Append(waits, 2 ^ attempt))
    ELSE [tx_hash |-> FALSE, attempts |-> attempt + 1, waits |-> waits]

\* _submit_with_retry(adapter, signed_tx, max_retries)
SubmitWithRetry(outcomes, retries) == RetryFrom(outcomes, retries, 0, << >>)

NoRecord == [none |-> TRUE]

\* _log_execution(bundle, current_state, submitted, tx_hash, error): the row
\* added to the executions table, none when the database raises
LogExecution(current_state, path, submitted, error, db_ok) ==
    IF ~db_ok THEN NoRecord
    ELSE [none |-> FALSE,
          bundle_submitted |-> submitted,
          submission_path |-> IF submitted THEN path ELSE "none",
          status |-> IF submitted THEN "PENDING" ELSE "REJECTED",
          included |-> FALSE,
          state_at_execution |-> current_state,
          error_message |-> error]

\* submit_bundle(bundle, current_state): signed is FALSE when
\* _sign_transaction raises
SubmitBundleOp(current_state, path, signed, outcomes, db_ok) ==
    IF ~signed
    THEN [success |-> FALSE, attempts |-> 0, waits |-> << >>,
          record |-> LogExecution(current_state, path, FALSE, "error", db_ok)]
    ELSE LET r == SubmitWithRetry(outcomes, max_retries)
         IN  [success |-> r.tx_hash, attempts |-> r.attempts, waits |-> r.waits,
              record |-> LogExecution(current_state, path, r.tx_hash,
                                      IF r.tx_hash THEN "none"
                                      ELSE "submission_failed", db_ok)]

\* submit_bundle on the bundle the last plan_execution produced
SubmitBundle ==
    /\ planner_op.op = "plan_execution"
    /\ ~planner_op.bundle.none
    /\ \E current_state \in {NORMAL, THROTTLED}, path \in SubmissionPaths,
          signed \in BOOLEAN, outcomes \in TransportOutcomes,
          db_ok \in BOOLEAN :
         LET r == SubmitBundleOp(current_state, path, signed, outcomes, db_ok)
         IN  planner_op' = [op |-> "submit_bundle",
                            bundle |-> planner_op.bundle,
                            signed |-> signed,
                            outcomes |-> outcomes,
                            success |-> r.success,
                            attempts |-> r.attempts,
                            waits |-> r.waits,
                            record |-> r.record]
    /\ UNCHANGED <<planner, planner_frame>>

NextSubmit ==
    \/ PlanExecutionCall
    \/ SubmitBundle

InitSubmit ==
    /\ BotInit
    /\ ~dry_run
    /\ SubsystemsInit

SpecSubmit == InitSubmit /\ [][NextSubmit]_vars

\* ------------------------------------------------------------------------
\* Properties
\* ------------------------------------------------------------------------

\* C1: every call to submit_bundle happens at a moment when the Safety
\* Controller state is not HALTED, also for positions handled later in the
\* scan cycle in which the state became HALTED.
C1_NoSubmitWhileHalted ==
    last_submit.called => last_submit.state_at_call # HALTED

\* C2: once the State Engine has halted the system, no bundle is submitted
\* until an operator issues manual_resume.
C2_EngineHaltStopsSubmission ==
    last_submit.called => ~last_submit.engine_halt_pending

\* C3: a step that takes the Safety Controller out of HALTED is a
\* manual_resume; no other operation moves the state from HALTED to NORMAL
\* or THROTTLED, however good the metrics are.
C3_HaltedLeftOnlyByManualResume ==
    [][(controller.current_state = HALTED
            /\ controller'.current_state # HALTED)
        => last_op'.op = "manual_resume"]_vars

\* C3: check_and_apply_transitions ran in HALTED on metrics that satisfy the
\* recovery rule, and the state is still HALTED
C3_HaltedKeptOnGoodMetrics ==
    /\ last_op.op = "check_and_apply_transitions"
    /\ controller.current_state = HALTED
    /\ ~controller.cached_metrics.none
    /\ ShouldRecoverToNormal(controller.cached_metrics)

\* C4: every bundle passed to submit_bundle is the one plan_execution
\* produced from a simulation that succeeded with simulated profit > 0, and
\* validate_execution approved it before the submission.
C4_SubmittedBundleSimulatedAndApproved ==
    last_submit.called =>
        /\ last_submit.planned_from.success
        /\ last_submit.planned_from.simulated_profit_wei > 0
        /\ ~last_submit.bundle.none
        /\ last_submit.bundle.simulation_success
        /\ last_submit.bundle.simulated_profit_wei
               = last_submit.planned_from.simulated_profit_wei
        /\ last_submit.bundle.net_profit_usd
               = last_submit.planned_from.net_profit_usd
        /\ last_submit.approved

\* C4: a planned and approved bundle was submitted, and the submission
\* succeeded
C4_BundleSubmitted ==
    /\ last_submit.called
    /\ last_submit.bundle.net_profit_usd = min_profit_usd
    /\ bundles_submitted = 1
    /\ pc = "top"

\* C5: in dry-run mode no step of the loop calls submit_bundle; a position
\* whose bundle passes simulation and validate_execution adds one to the
\* successful simulations and its net profit to the theoretical profit, and
\* no other position changes these two.
C5_DryRunCountsAndSkips ==
    [][(dry_run /\ last_op'.op = "handle_position") =>
          /\ ~last_submit'.called
          /\ bundles_submitted' = bundles_submitted
          /\ dry_run_stats'.success =
                 dry_run_stats.success + (IF last_op'.approved THEN 1 ELSE 0)
          /\ dry_run_stats'.theoretical_profit =
                 dry_run_stats.theoretical_profit + last_op'.net_profit_usd]_vars

\* C5: a dry run in which every position of the cycle passed both steps
C5_DryRunCounted ==
    /\ dry_run
    /\ dry_run_stats.success = NumPositions
    /\ dry_run_stats.theoretical_profit = NumPositions * min_profit_usd
    /\ ~last_submit.called

\* C6: validate_execution accepts exactly when min_profit_usd <=
\* net_profit_usd <= max_single_execution_usd, daily_volume_usd +
\* net_profit_usd <= max_daily_volume_usd and consecutive_failures <
\* max_consecutive_failures.
C6_ValidateAcceptsIffWithinLimits ==
    last_op.op = "validate_execution" =>
        (last_op.ok <=>
            /\ min_profit_usd <= last_op.net_profit_usd
            /\ last_op.net_profit_usd <= max_single_execution_usd
            /\ controller.daily_volume_usd + last_op.net_profit_usd
                   <= max_daily_volume_usd
            /\ controller.consecutive_failures < max_consecutive_failures)

\* C6: a candidate that brings the daily volume exactly to the limit was
\* accepted
C6_AcceptedExactlyAtDailyLimit ==
    /\ last_op.op = "validate_execution"
    /\ last_op.ok
    /\ controller.daily_volume_usd > 0
    /\ controller.daily_volume_usd + last_op.net_profit_usd
           = max_daily_volume_usd

\* C7: at every validate_execution call that reaches the daily-volume test,
\* the daily_volume_usd it compares is the sum of actual_profit_usd of the
\* included outcomes recorded since the most recent 00:00 UTC.
C7_DailyVolumeIsTodaysIncludedProfit ==
    (last_op.op = "validate_execution" /\ last_op.compared)
        => controller.daily_volume_usd = included_since_midnight

\* C8: record_execution of an included outcome sets consecutive_failures to
\* 0, appends one entry to submission_history and one to execution_history
\* (a full deque drops its oldest entry), and adds actual_profit_usd to the
\* daily volume.
C8_IncludedOutcomeRecorded ==
    [][(last_op'.op = "record_execution" /\ last_op'.record.included) =>
          LET r  == last_op'.record
              s  == controller.submission_history
              s2 == controller'.submission_history
              e  == controller.execution_history
              e2 == controller'.execution_history
          IN  /\ controller'.consecutive_failures = 0
              /\ controller'.daily_volume_usd =
                     controller.daily_volume_usd + r.actual_profit_usd
              /\ Len(s2) = (IF Len(s) < WindowSize THEN Len(s) + 1 ELSE WindowSize)
              /\ s2[Len(s2)] = [included |-> TRUE]
              /\ \A i \in 1..(Len(s2) - 1) : s2[i] = s[i + Len(s) + 1 - Len(s2)]
              /\ Len(e2) = (IF Len(e) < WindowSize THEN Len(e) + 1 ELSE WindowSize)
              /\ e2[Len(e2)] = [simulated_profit_usd |-> r.simulated_profit_usd,
                                actual_profit_usd |-> r.actual_profit_usd]
              /\ \A i \in 1..(Len(e2) - 1) : e2[i] = e[i + Len(e) + 1 - Len(e2)]]_vars

\* C8: an included outcome was recorded after failures, into a full
\* submission deque
C8_IncludedRecordedAfterFailures ==
    /\ last_op.op = "record_execution"
    /\ last_op.record.included
    /\ last_op.record.actual_profit_usd = 800
    /\ n_records > WindowSize
    /\ Len(controller.submission_history) = WindowSize
    /\ Len(controller.execution_history) = 1
    /\ controller.consecutive_failures = 0

\* C9: record_execution increases consecutive_failures exactly when the
\* record was submitted and not included, and then by 1; such a record is
\* appended to submission_history only; a record neither submitted nor
\* included changes no counter and no deque.
C9_FailureCountedIffSubmittedNotIncluded ==
    [][last_op'.op = "record_execution" =>
          LET r  == last_op'.record
              s  == controller.submission_history
              s2 == controller'.submission_history
              failed == r.bundle_submitted /\ ~r.included
          IN  /\ (controller'.consecutive_failures > controller.consecutive_failures)
                     <=> failed
              /\ failed =>
                   /\ controller'.consecutive_failures =
                          controller.consecutive_failures + 1
                   /\ Len(s2) = (IF Len(s) < WindowSize THEN Len(s) + 1
                                 ELSE WindowSize)
                   /\ s2[Len(s2)] = [included |-> FALSE]
                   /\ \A i \in 1..(Len(s2) - 1) :
                          s2[i] = s[i + Len(s) + 1 - Len(s2)]
                   /\ controller'.execution_history = controller.execution_history
                   /\ controller'.daily_volume_usd = controller.daily_volume_usd
              /\ (~r.bundle_submitted /\ ~r.included) =>
                   /\ controller'.consecutive_failures = controller.consecutive_failures
                   /\ controller'.daily_volume_usd = controller.daily_volume_usd
                   /\ controller'.submission_history = s
                   /\ controller'.execution_history = controller.execution_history]_vars

\* C9: a second consecutive failure was recorded next to an earlier inclusion
C9_SecondFailureRecorded ==
    /\ last_op.op = "record_execution"
    /\ last_op.record.bundle_submitted
    /\ ~last_op.record.included
    /\ controller.consecutive_failures = 2
    /\ Len(controller.execution_history) = 1
    /\ Len(controller.submission_history) = WindowSize

\* C10: a can_execute call returns true while the state is NORMAL and false
\* while it is HALTED; while it is THROTTLED a call can return true and a
\* call can return false.
C10_CanExecuteByState ==
    /\ last_op.op = "can_execute" =>
         /\ controller.current_state = NORMAL => last_op.result
         /\ controller.current_state = HALTED => ~last_op.result
    /\ controller.current_state = THROTTLED =>
         /\ ENABLED (CanExecuteCall /\ last_op'.result)
         /\ ENABLED (CanExecuteCall /\ ~last_op'.result)

\* C10: a can_execute call in THROTTLED let the cycle run
C10_ThrottledCallReturnedTrue ==
    /\ last_op.op = "can_execute"
    /\ controller.current_state = THROTTLED
    /\ last_op.result

\* C11: from NORMAL or THROTTLED, check_and_apply_transitions moves the
\* state to HALTED whenever consecutive_failures >= max_consecutive_failures,
\* or inclusion_rate < halt_inclusion_rate over at least the minimum number
\* of submissions, or simulation_accuracy < halt_accuracy over at least the
\* minimum number of executions; the throttle and recovery rules do not
\* prevent it.
C11_HaltRuleApplies ==
    (rule_case.applied /\ rule_case.current # HALTED) =>
        LET m == rule_case.m
        IN  (\/ m.consecutive_failures >= max_consecutive_failures
             \/ /\ m.total_submissions >= MinSampleSize
                /\ m.successful_inclusions * 100
                       < halt_inclusion_rate_pct * m.total_submissions
             \/ /\ m.total_executions >= MinSampleSize
                /\ m.accuracy_pct_sum < halt_accuracy_pct * m.total_executions)
            => rule_case.after = HALTED

\* C11: the rules halted a THROTTLED system on the failure count although
\* both metrics satisfied the recovery rule
C11_HaltedDespiteRecoveryMetrics ==
    /\ rule_case.applied
    /\ rule_case.current = THROTTLED
    /\ rule_case.after = HALTED
    /\ rule_case.m.consecutive_failures = max_consecutive_failures
    /\ rule_case.m.total_submissions = MaxSamples
    /\ rule_case.m.successful_inclusions = MaxSamples - 1
    /\ rule_case.m.total_executions = MaxSamples
    /\ rule_case.m.accuracy_pct_sum = 91 * MaxSamples

\* C12: from NORMAL with no halt condition, check_and_apply_transitions
\* moves the state to THROTTLED exactly when halt_inclusion_rate <=
\* inclusion_rate < throttle_inclusion_rate over at least the minimum number
\* of submissions, or halt_accuracy <= simulation_accuracy <
\* throttle_accuracy over at least the minimum number of executions;
\* otherwise the state stays NORMAL.
C12_ThrottleRuleExact ==
    LET m == rule_case.m
        halts ==
            \/ m.consecutive_failures >= max_consecutive_failures
            \/ /\ m.total_submissions >= MinSampleSize
               /\ m.successful_inclusions * 100
                      < halt_inclusion_rate_pct * m.total_submissions
            \/ /\ m.total_executions >= MinSampleSize
               /\ m.accuracy_pct_sum < halt_accuracy_pct * m.total_executions
        in_band ==
            \/ /\ m.total_submissions >= MinSampleSize
               /\ m.successful_inclusions * 100
                      >= halt_inclusion_rate_pct * m.total_submissions
               /\ m.successful_inclusions * 100
                      < throttle_inclusion_rate_pct * m.total_submissions
            \/ /\ m.total_executions >= MinSampleSize
               /\ m.accuracy_pct_sum >= halt_accuracy_pct * m.total_executions
               /\ m.accuracy_pct_sum < throttle_accuracy_pct * m.total_executions
    IN  (rule_case.applied /\ rule_case.current = NORMAL /\ ~halts) =>
            /\ rule_case.after = (IF in_band THEN THROTTLED ELSE NORMAL)

\* C12: an inclusion rate of exactly 60% with accuracy of exactly 90% left
\* the state NORMAL
C12_NormalKeptAtThresholds ==
    /\ rule_case.applied
    /\ rule_case.current = NORMAL
    /\ rule_case.after = NORMAL
    /\ rule_case.m.total_submissions = 5
    /\ rule_case.m.successful_inclusions = 3
    /\ rule_case.m.total_executions = 5
    /\ rule_case.m.accuracy_pct_sum = 90 * 5
    /\ rule_case.m.consecutive_failures = 0

\* C13: from THROTTLED, check_and_apply_transitions gives NORMAL only when
\* inclusion_rate > throttle_inclusion_rate and simulation_accuracy >
\* throttle_accuracy both hold strictly.
C13_RecoveryNeedsBothStrictly ==
    (rule_case.applied /\ rule_case.current = THROTTLED
        /\ rule_case.after = NORMAL) =>
        LET m == rule_case.m
        IN  /\ m.total_submissions > 0
            /\ m.successful_inclusions * 100
                   > throttle_inclusion_rate_pct * m.total_submissions
            /\ m.total_executions > 0
            /\ m.accuracy_pct_sum > throttle_accuracy_pct * m.total_executions

\* C13: with the inclusion rate exactly at 60% and accuracy above 90% the
\* state stayed THROTTLED
C13_ThrottledKeptAtInclusionThreshold ==
    /\ rule_case.applied
    /\ rule_case.current = THROTTLED
    /\ rule_case.after = THROTTLED
    /\ rule_case.m.total_submissions = 5
    /\ rule_case.m.successful_inclusions = 3
    /\ rule_case.m.total_executions = 5
    /\ rule_case.m.accuracy_pct_sum = 91 * 5
    /\ rule_case.m.consecutive_failures = 0

\* C14: a reconciliation in which some field of a cached position diverges
\* from the canonical value by more than 10 bps emits a StateDivergence
\* record and halts the system, and the cached positions are overwritten
\* (values and last_update_block) only by a reconciliation in which no field
\* diverges by more than 10 bps.
C14_ReconcileOverwritesOnlyWithinThreshold ==
    [][cache_op'.op = "reconcile" =>
          /\ cache_op'.halt =>
                 /\ cache_op'.divergences # {}
                 /\ system_state' = HALTED
          /\ (\E k \in PositionKeys :
                 RedisGet(redis', redis_up', k).value
                     # RedisGet(redis, redis_up, k).value)
              => ~cache_op'.halt]_vars

\* C15: update_position_health is the only writer of blocks_unhealthy: a
\* cached position carries the value update_position_health last wrote for
\* it (0 before the first call), whatever upserts, re-fetches, expiries and
\* re-creations happened since.
C15_BlocksUnhealthyWrittenOnlyByUpdateHealth ==
    \A k \in PositionKeys :
        ~CachedEntry(redis, k).none
            => CachedEntry(redis, k).blocks_unhealthy = streak[k].count

\* C16: an Opportunity is emitted for a position only when its health
\* factor was observed below 1 at confirmation_blocks or more distinct
\* blocks since it was last observed at or above 1; several checks of the
\* position within one block count once.
C16_OpportunityNeedsDistinctUnhealthyBlocks ==
    cache_op.op = "scan" =>
        \A k \in cache_op.opportunities :
            Cardinality(streak[k].blocks) >= confirmation_blocks

\* C20: a position that was written while the external store was reachable
\* and whose TTL has not run out is returned by the get_position call that
\* finds the store unreachable and switches to the in-process fallback.
C20_PositionSurvivesSwitchToFallback ==
    [][\A k \in PositionKeys :
          (/\ cache_op'.op = "get_position"
           /\ cache_op'.key = k
           /\ ~redis.use_fallback
           /\ redis'.use_fallback
           /\ ValidPosition(redis.store[k]))
          => cache_op'.result = redis.store[k]]_vars

C17_BundleNetProfitIsProfitMinusCosts ==
    (planner_op.op = "plan_execution" /\ ~planner_op.bundle.none) =>
        LET b == planner_op.bundle
        IN  /\ b.net_profit_usd =
                  b.simulated_profit_usd
                  - (b.l2_gas_cost_usd + b.l1_data_cost_usd + b.bribe_usd
                     + b.flash_loan_cost_usd + b.slippage_cost_usd)
            /\ b.net_profit_usd > 0

\* C17 witness: a Bundle was produced in which all five costs are above 0
C17_BundleWithAllCosts ==
    /\ planner_op.op = "plan_execution"
    /\ ~planner_op.bundle.none
    /\ planner_op.bundle.l2_gas_cost_usd > 0
    /\ planner_op.bundle.l1_data_cost_usd > 0
    /\ planner_op.bundle.bribe_usd > 0
    /\ planner_op.bundle.flash_loan_cost_usd > 0
    /\ planner_op.bundle.slippage_cost_usd > 0

\* C18: bribe_percent stays between baseline_bribe_percent and
\* max_bribe_percent, and an update over a window of the last 100
\* submissions leaves it at the old value plus bribe_increase_percent capped
\* at the maximum when inclusion was below 60%, at the old value minus
\* bribe_decrease_percent floored at the baseline when inclusion was above
\* 90%, and at the old value otherwise.
C18_BribeStaysWithinBoundsAndFollowsLadder ==
    /\ baseline_bribe_percent <= planner.bribe_percent
    /\ planner.bribe_percent <= max_bribe_percent
    /\ (planner_op.op = "update_bribe_model" /\ planner_op.n >= bribe_window) =>
          LET old == planner_op.old_bribe
              below == planner_op.included * 100 < 60 * planner_op.n
              above == planner_op.included * 100 > 90 * planner_op.n
          IN  planner.bribe_percent =
                IF below
                THEN IF old + bribe_increase_percent > max_bribe_percent
                     THEN max_bribe_percent
                     ELSE old + bribe_increase_percent
                ELSE IF above
                     THEN IF old - bribe_decrease_percent < baseline_bribe_percent
                          THEN baseline_bribe_percent
                          ELSE old - bribe_decrease_percent
                     ELSE old

\* C18 witness: after 15 -> 20 at 40% inclusion, an update at 95% inclusion
\* has taken the bribe from 20 to 18
C18_BribeLoweredFromTwentyToEighteen ==
    /\ planner_op.op = "update_bribe_model"
    /\ planner_op.n = bribe_window
    /\ planner_op.included = 95
    /\ planner_op.old_bribe = 20
    /\ planner.bribe_percent = 18

\* ------------------------------------------------------------------------
\* The sequencer guard and the steps of block processing
\* ------------------------------------------------------------------------

\* C21: processing a header halts the system when the header's timestamp
\* is lower than the timestamp of the previously processed block, or more
\* than 20 seconds above it.
C21_TimestampAnomalyHalts ==
    (/\ cache_op.op = "process_new_block"
     /\ cache_op.previous_timestamp > 0
     /\ \/ engine.last_block_timestamp < cache_op.previous_timestamp
        \/ engine.last_block_timestamp - cache_op.previous_timestamp > 20)
    => system_state = HALTED

\* C22: with a previously processed block, processing a header halts the
\* system when it is more than 3 blocks ahead of the previous block or when
\* the reorg depth (previous - block + 1) exceeds 3; a gap of 2 or 3 blocks
\* and a reorg of depth 1 to 3, the re-delivery of the same block number
\* included, do not make the guard halt.
C22_GapAndReorgBeyondThreeHalt ==
    (cache_op.op = "process_new_block" /\ engine.previous_block > 0)
    => LET gap == engine.current_block - engine.previous_block
           reorg_depth == engine.previous_block - engine.current_block + 1
       IN  /\ gap > 3 => (cache_op.halted /\ system_state = HALTED)
           /\ reorg_depth > 3 => (cache_op.halted /\ system_state = HALTED)
           /\ gap \in {2, 3} => ~cache_op.halted
           /\ reorg_depth \in 1..3 => ~cache_op.halted

\* Block 2 arrives after block 5, a reorg of depth 4, and the guard halts
C22_ReorgOfDepthFourHalted ==
    /\ cache_op.op = "process_new_block"
    /\ engine.previous_block = 5
    /\ engine.current_block = 2
    /\ cache_op.halted
    /\ system_state = HALTED

\* C23: a block-processing step in which the guard fails ends there: it
\* applies no events, reconciles nothing and saves no checkpoint.
C23_HaltingStepDoesNothingElse ==
    (cache_op.op = "process_new_block" /\ cache_op.halted)
    => /\ system_state = HALTED
       /\ ~cache_op.events_applied
       /\ ~cache_op.reconciled
       /\ ~cache_op.checkpoint_saved

\* C26: block processing reconciles the cache at least once in any 10
\* blocks processed in a row: no run of MaxRun block-processing steps goes
\* by without one of them reconciling.
C26_ReconciledWithinTenBlocks ==
    cache_op.op = "process_new_block"
    => (cache_op.reconciled \/ cache_op.run < MaxRun)

\* C25: the divergence in basis points that reconciliation computes for a
\* field equals |cached - canonical| * 10000 / canonical whatever the sign
\* of cached - canonical, so a cached value below the canonical one and one
\* equally far above it give the same result (196 bps for 1.00e18 against
\* 1.02e18).
C25_DivergenceIsSymmetric ==
    cache_op.op = "reconcile"
    => \A d \in cache_op.divergences :
           d.divergence_bps =
               (Abs(d.cached_value - d.canonical_value) * 10000)
                   \div d.canonical_value

\* ------------------------------------------------------------------------
\* Outcomes, metrics and the bribe model in the running bot
\* ------------------------------------------------------------------------

\* C24: every bundle the loop has submitted eventually has its outcome
\* applied through record_execution: once i bundles have been submitted,
\* record_execution is eventually applied for the i-th time.
C24_SubmittedBundleOutcomeRecorded ==
    \A i \in 1..(NumPositions * MaxCycles) :
        (bundles_submitted >= i) ~> (n_records >= i)

\* C27: a check_and_apply_transitions that finds fewer than the minimum
\* number of samples in both rolling windows takes no transition on the
\* inclusion rate or the accuracy, whatever their values: the state is left
\* as it was unless consecutive_failures has reached
\* max_consecutive_failures, in which case a system that is not HALTED is
\* halted.
C27_OnlyFailureCountActsBelowMinimumSample ==
    (/\ ~rule_case.none
     /\ rule_case.applied
     /\ rule_case.m.total_submissions < MinSampleSize
     /\ rule_case.m.total_executions < MinSampleSize)
    => rule_case.after =
           IF /\ rule_case.m.consecutive_failures >= max_consecutive_failures
              /\ rule_case.current # HALTED
           THEN HALTED
           ELSE rule_case.current

\* C27 as stated: with fewer than the minimum number of samples the state is
\* left as it was whatever consecutive_failures, the inclusion rate and the
\* accuracy are.
C27_NoTransitionBelowMinimumSample ==
    (/\ ~rule_case.none
     /\ rule_case.applied
     /\ rule_case.m.total_submissions < MinSampleSize
     /\ rule_case.m.total_executions < MinSampleSize)
    => rule_case.after = rule_case.current

\* One submission, not included, and one execution at 84% accuracy, with the
\* failure count below its limit: the state stayed NORMAL
C27_NormalKeptOnSingleBadSample ==
    /\ ~rule_case.none
    /\ rule_case.applied
    /\ rule_case.current = NORMAL
    /\ rule_case.after = NORMAL
    /\ rule_case.m.total_submissions = 1
    /\ rule_case.m.successful_inclusions = 0
    /\ rule_case.m.total_executions = 1
    /\ rule_case.m.accuracy_pct_sum = 84
    /\ rule_case.m.consecutive_failures = max_consecutive_failures - 1

\* C28: at any time the inclusion rate that calculate_metrics() reports, the
\* one check_and_apply_transitions uses, is the number of included entries
\* of submission_history over its length as they are now (0 for an empty
\* history).
C28_ReportedInclusionRateIsCurrent ==
    LET m == CalculateMetrics(controller, FALSE).m
        h == controller.submission_history
        included == SumOver(h, "inc", 1)
    IN  IF m.total_submissions = 0 \/ Len(h) = 0
        THEN /\ (m.total_submissions = 0 \/ m.successful_inclusions = 0)
             /\ (Len(h) = 0 \/ included = 0)
        ELSE m.successful_inclusions * Len(h) = included * m.total_submissions

\* C29: bribe_percent changes only at boundaries of 100 submissions: a step
\* that changes it finds at least 100 more bundles submitted than at the
\* previous change, and a step that applies the update finds at least one
\* more bundle submitted than at the previous application.
C29_BribeUpdatedOnlyAtSubmissionBoundaries ==
    [][/\ (/\ planner'.bribe_update_counter # planner.bribe_update_counter
           /\ AppliedAt(planner_op) # NeverUpdated)
          => bundles_submitted' > AppliedAt(planner_op)
       /\ (/\ planner'.bribe_percent # planner.bribe_percent
           /\ ChangedAt(planner_op) # NeverUpdated)
          => bundles_submitted' >= ChangedAt(planner_op) + bribe_window]_vars

\* C30: applying update_bribe_model a second time to the window it has just
\* been applied to leaves bribe_percent at the value the first application
\* gave.
C30_BribeUpdateIsIdempotent ==
    (planner_op.op = "update_bribe_model" /\ planner_op.n >= bribe_window)
    => UpdateBribeModelOp(planner, planner_op.n, planner_op.included)
           .bribe_percent = planner.bribe_percent

\* ------------------------------------------------------------------------
\* check_position
\* ------------------------------------------------------------------------

\* C31: a check_position that cannot evaluate the health factor because a
\* price is missing, or whose oracle sanity check fails, emits no
\* Opportunity and leaves the position's blocks_unhealthy as it was.
C31_SuspectDataLeavesBlocksUnhealthy ==
    [][cache_op'.op = "scan" =>
          \A c \in cache_op'.checked :
              c.health \in {"none", "suspect"}
              => /\ ~c.opportunity
                 /\ ~CachedEntry(redis', c.key).none
                 /\ CachedEntry(redis', c.key).blocks_unhealthy
                        = CachedEntry(redis, c.key).blocks_unhealthy]_vars

\* A position with one unhealthy block counted failed the sanity check and
\* still has one
C31_SuspectCheckKeptCountOfOne ==
    /\ cache_op.op = "scan"
    /\ \E c \in cache_op.checked :
          /\ c.health = "suspect"
          /\ CachedEntry(redis, c.key).blocks_unhealthy = 1

AllAttemptsFailed ==
    /\ planner_op.op = "submit_bundle"
    /\ planner_op.signed
    /\ \A i \in DOMAIN planner_op.outcomes : ~planner_op.outcomes[i]

\* C33: when every submission attempt fails, submit_bundle makes the
\* initial attempt plus 3 retries, waiting 1 s, 2 s and 4 s before the
\* successive retries, then logs the execution record as REJECTED; when an
\* attempt succeeds it stops retrying (the successful call is the last and
\* one wait precedes each retry) and logs the record as PENDING.
C33_ThreeRetriesWithBackoff ==
    planner_op.op = "submit_bundle" /\ planner_op.signed =>
        /\ AllAttemptsFailed =>
              /\ planner_op.attempts = 1 + 3
              /\ planner_op.waits = <<1, 2, 4>>
              /\ ~planner_op.record.none => planner_op.record.status = "REJECTED"
        /\ planner_op.success =>
              /\ planner_op.outcomes[planner_op.attempts]
              /\ \A i \in 1..(planner_op.attempts - 1) : ~planner_op.outcomes[i]
              /\ Len(planner_op.waits) = planner_op.attempts - 1
              /\ ~planner_op.record.none => planner_op.record.status = "PENDING"

\* ------------------------------------------------------------------------
\* The life of a cached position
\* ------------------------------------------------------------------------

\* The last operation was a LiquidationCall event for key, or a Repay event
\* that left the debt of key's valid position at zero
RemovingEvent(key) ==
    /\ cache_op.op \in {"liquidation_event", "repay_event"}
    /\ cache_op.key = key
    /\ cache_op.op = "repay_event" =>
          /\ ValidPosition(cache_op.before)
          /\ CachedEntry(redis, key).debt_amount = 0

\* C34: after a liquidation event for a cached position, and after a repay
\* event that reduces its debt to zero, get_position returns no position
\* and get_all_positions does not contain it, whether the store is
\* reachable at that moment or not.
C34_LiquidatedOrRepaidPositionIsGone ==
    \A key \in PositionKeys :
        RemovingEvent(key) =>
            \A up \in BOOLEAN :
                /\ GetPosition(redis, up, key).position.none
                /\ LET ks == RedisKeys(redis, up)
                   IN  key \notin GetAllPositions(ks.r, up, ks.keys).keys

\* A valid position with a debt above zero was fully repaid: its entry is
\* still in the cache, with a debt of zero
C34_FullyRepaidEntryOfDebtZero ==
    \E key \in PositionKeys :
        /\ cache_op.op = "repay_event"
        /\ RemovingEvent(key)
        /\ ~CachedEntry(redis, key).none

\* C35: for every position, last_update_block never decreases from one
\* cache write to the next, also when a reorganisation has delivered a
\* block number lower than one already processed.
C35_LastUpdateBlockNeverDecreases ==
    [][\A key \in PositionKeys :
          ~CachedEntry(redis, key).none /\ ~CachedEntry(redis', key).none =>
              CachedEntry(redis', key).last_update_block >=
                  CachedEntry(redis, key).last_update_block]_vars

\* ------------------------------------------------------------------------
\* The listener
\* ------------------------------------------------------------------------

\* C36: block processing is serialized: the listener starts the step for a
\* header only when no earlier step is still in progress, so at most one
\* step is in progress at any time, whatever the health monitor (failover
\* included) does in between.
C36_BlockProcessingSerialized ==
    /\ ws.handling <= 1
    /\ last_op.op = "ws_message" => last_op.in_progress = 0

\* The health monitor ticked while a block-processing step was in
\* progress, with the connection failed over to the backup
C36_MonitorTickedDuringStepOnBackup ==
    /\ ws.handling = 1
    /\ last_op.op = "monitor_health"
    /\ ~ws.is_primary
    /\ ws.reconnect_attempts = 0

\* ------------------------------------------------------------------------
\* manual_resume
\* ------------------------------------------------------------------------

\* C37: after manual_resume has taken the state from HALTED to NORMAL, a
\* transition check that runs before any new outcome is recorded does not
\* take the state back to HALTED.
C37_NoSecondHaltWithoutNewOutcome ==
    [][/\ last_op.op = "manual_resume"
       /\ last_op.previous_state = HALTED
       /\ controller.current_state = NORMAL
       /\ last_op'.op = "check_and_apply_transitions"
       => controller'.current_state # HALTED]_vars

\* ------------------------------------------------------------------------
\* The failure limit in the running bot
\* ------------------------------------------------------------------------

\* C38: once consecutive_failures has reached max_consecutive_failures in a
\* state other than HALTED, the system eventually is HALTED (or an included
\* outcome has brought the counter back below the limit): it does not stay
\* for ever in a state that is not HALTED with the counter at the limit.
C38_FailureLimitEventuallyHalts ==
    (/\ controller.consecutive_failures >= max_consecutive_failures
     /\ controller.current_state # HALTED)
    ~> (\/ controller.current_state = HALTED
        \/ controller.consecutive_failures < max_consecutive_failures)

\* ------------------------------------------------------------------------
\* The daily volume
\* ------------------------------------------------------------------------

\* C39: whatever validate_execution approvals, submissions and
\* record_execution calls for the submitted bundles have taken place within
\* one UTC day, daily_volume_usd is within 0..max_daily_volume_usd.
C39_DailyVolumeWithinLimit ==
    today = 0 =>
        /\ controller.daily_volume_usd >= 0
        /\ controller.daily_volume_usd <= max_daily_volume_usd

\* ------------------------------------------------------------------------
\* Reconciliation against a canonical amount of zero
\* ------------------------------------------------------------------------

\* C40: a reconciliation that finds a canonical amount of 0 for a field
\* whose cached amount is not 0 (the cache then takes the canonical 0)
\* records a divergence for that field and halts the system.
C40_CanonicalZeroIsDivergence ==
    [][cache_op'.op = "reconcile" /\ redis'.use_fallback = redis.use_fallback =>
         \A key \in PositionKeys, f \in {"collateral_amount", "debt_amount"} :
             (/\ ~CachedEntry(redis, key).none
              /\ ~CachedEntry(redis', key).none
              /\ CachedEntry(redis, key)[f] # 0
              /\ CachedEntry(redis', key)[f] = 0
              /\ CachedEntry(redis', key).last_update_block = engine.current_block)
             => /\ cache_op'.halt
                /\ system_state' = HALTED
                /\ \E d \in cache_op'.divergences :
                      d.key = key /\ d.field = f]_vars

====
